---- MODULE Spec2Model ----
(***************************************************************************)
(* Model of the handmade JSON parser: the member heap behind json_object,  *)
(* the insert / lookup / delete / destroy API of rcc_json_object.cpp and   *)
(* the tokenizer and recursive-descent parser of rcc_json_parser.cpp.      *)
(*                                                                         *)
(* Pointers are node ids: NULL is nullptr, 1..Len(heap) are json_member    *)
(* blocks returned by malloc (ids are never reused), WILD is any other     *)
(* bit pattern.  Dereferencing anything but a live block is undefined      *)
(* behaviour and is recorded in `fault`; the program does not go on.       *)
(***************************************************************************)
EXTENDS Integers, Sequences, FiniteSets, TLC

VARIABLES heap, objs, fault, ret, InputJsonBuffer, InputJsonFileSize, BufferIndex

vars == <<heap, objs, fault, ret, InputJsonBuffer, InputJsonFileSize, BufferIndex>>

(***************************************************************************)
(* Bounds of the model.                                                    *)
(***************************************************************************)
MaxNodes == 3
MaxPieces == 3

NULL == 0
WILD == -1

\* What the Next field of a malloc'ed json_member may hold: malloc does not
\* run the json_member constructor and no addJsonMember sets Next.
UninitNext == {NULL, WILD}

Keys == {"a", "b"}
\* A key argument is a const char*: a null pointer, the empty string or a key.
NullKey == "<nullptr>"
KeyArgs == Keys \cup {"", NullKey}

ObjIds == {1, 2}
EmptyKeyArgs == {""}
NestKeyArgs == {"a", ""}

(***************************************************************************)
(* json_value                                                              *)
(***************************************************************************)
\* float64_t: the integer it holds when that lies within int32_t (the
\* numbers of this model have no fraction); a number of greater magnitude is
\* kept as its decimal text (wide), which a double holds exactly up to 2^53.
float64_t(n) == [int |-> n, wide |-> <<>>]

json_value == [Type |-> "INVALID", String |-> "", Number |-> float64_t(0), Boolean |-> FALSE,
               Child |-> NULL, Array |-> <<>>, Size |-> 0]

StringValue(s) == [json_value EXCEPT !.Type = "STRING", !.String = s]
NumberValue(n) == [json_value EXCEPT !.Type = "NUMBER", !.Number = n]
BooleanValue(b) == [json_value EXCEPT !.Type = "BOOLEAN", !.Boolean = b]
NullValue == [json_value EXCEPT !.Type = "NULL"]
MemberValue(c) == [json_value EXCEPT !.Type = "MEMBER", !.Child = c]
ArrayValue(a, n) == [json_value EXCEPT !.Type = "ARRAY", !.Array = a, !.Size = n]

\* json_object(): First = nullptr, IsValid = true.
json_object == [First |-> NULL, IsValid |-> TRUE]

(***************************************************************************)
(* The heap: a sequence of json_member blocks.  Freed counts the calls of  *)
(* free() on the block, KeyFreed those on its key, StrLive says that the   *)
(* block's String payload (a copyString allocation) is still allocated.    *)
(***************************************************************************)
Live(h, p) == p \in 1..Len(h) /\ h[p].Freed = 0

DerefFault(h, p) ==
    IF p = NULL THEN "null_deref"
    ELSE IF p \in 1..Len(h) THEN "use_after_free"
    ELSE "wild_deref"

NoFault == "none"

(***************************************************************************)
(* Lookup                                                                  *)
(***************************************************************************)
GetResult(v, f) == [val |-> v, fault |-> f]

RECURSIVE getJsonValue(_, _, _)
RECURSIVE getJsonValueLoop(_, _, _)

\* Mutant of the loop: the siblings are searched before the nested object.
getJsonValueLoop_SiblingsFirst(h, TargetMember, Key) ==
    IF TargetMember = NULL THEN GetResult(json_value, NoFault)
    ELSE IF ~Live(h, TargetMember) THEN GetResult(json_value, DerefFault(h, TargetMember))
    ELSE IF h[TargetMember].Key = Key THEN GetResult(h[TargetMember].Value, NoFault)
    ELSE LET Result == getJsonValueLoop(h, h[TargetMember].Next, Key)
         IN  IF Result.fault # NoFault \/ Result.val.Type # "INVALID"
             THEN Result
             ELSE IF h[TargetMember].Value.Type = "MEMBER"
             THEN getJsonValue(h, h[TargetMember].Value.Child, Key)
             ELSE GetResult(json_value, NoFault)

\* The while loop of getJsonValue(json_member*, const char*).
getJsonValueLoop(h, TargetMember, Key) ==
    IF TargetMember = NULL THEN GetResult(json_value, NoFault)
    ELSE IF ~Live(h, TargetMember) THEN GetResult(json_value, DerefFault(h, TargetMember))
    ELSE IF h[TargetMember].Key = Key THEN GetResult(h[TargetMember].Value, NoFault)
    ELSE LET Result == IF h[TargetMember].Value.Type = "MEMBER"
                       THEN getJsonValue(h, h[TargetMember].Value.Child, Key)
                       ELSE GetResult(json_value, NoFault)
         IN  IF Result.fault # NoFault \/ Result.val.Type # "INVALID"
             THEN Result
             ELSE getJsonValueLoop(h, h[TargetMember].Next, Key)

\* getJsonValue(json_member* JsonMember, const char* Key)
getJsonValue(h, JsonMember, Key) ==
    IF JsonMember = NULL THEN GetResult(json_value, NoFault)
    ELSE getJsonValueLoop(h, JsonMember, Key)

\* Mutant: only the head member is compared.
getJsonValueObject_HeadOnly(h, JsonObject, Key) ==
    IF JsonObject.First = NULL \/ ~Live(h, JsonObject.First) THEN GetResult(json_value, NoFault)
    ELSE IF h[JsonObject.First].Key = Key THEN GetResult(h[JsonObject.First].Value, NoFault)
    ELSE GetResult(json_value, NoFault)

\* getJsonValue(json_object JsonObject, const char* Key)
getJsonValueObject(h, JsonObject, Key) ==
    IF JsonObject.First = NULL THEN GetResult(json_value, NoFault)
    ELSE getJsonValue(h, JsonObject.First, Key)

(***************************************************************************)
(* Array accessors                                                         *)
(***************************************************************************)
\* A json_member as its constructor leaves it.
json_member == [Key |-> NullKey, Value |-> json_value, Next |-> NULL]

\* Mutant: the size field is returned without the test of the type.
getJsonValueArraySize_NoTypeCheck(JsonValue) == JsonValue.Size

\* int64_t getJsonValueArraySize(json_value JsonValue)
getJsonValueArraySize(JsonValue) ==
    IF JsonValue.Type # "ARRAY" THEN -1 ELSE JsonValue.Size

MemberResult(m, f) == [member |-> m, fault |-> f]

\* *(Element.Child): the union of json_value is read as a pointer whatever
\* the element holds; Child is the pointer only in an element of type MEMBER.
\* A Number 0 reads as the null pointer, every other payload as a pointer to
\* no json_member.
derefElementChild(h, Element) ==
    IF Element.Type = "MEMBER"
    THEN IF ~Live(h, Element.Child)
         THEN MemberResult(json_member, DerefFault(h, Element.Child))
         ELSE MemberResult([Key |-> h[Element.Child].Key, Value |-> h[Element.Child].Value,
                            Next |-> h[Element.Child].Next], NoFault)
    ELSE IF Element.Type = "NUMBER" /\ Element.Number = float64_t(0)
    THEN MemberResult(json_member, "null_deref")
    ELSE MemberResult(json_member, "wild_deref")

\* json_member getJsonValueArrayMember(json_value JsonValue, int32_t Index)
getJsonValueArrayMember(h, JsonValue, Index) ==
    IF JsonValue.Type # "ARRAY" THEN MemberResult(json_member, NoFault)
    ELSE IF Index \notin 0..(Len(JsonValue.Array) - 1)
    THEN MemberResult(json_member, "out_of_bounds")
    ELSE derefElementChild(h, JsonValue.Array[Index + 1])

(***************************************************************************)
(* Insert                                                                  *)
(***************************************************************************)
\* malloc(sizeof(json_member)) followed by one of the setJsonMemberValue
\* overloads: Key and Value are set, Next keeps what the block held.
setJsonMemberValue(Key, Value, Garbage) ==
    [Key |-> Key, Value |-> Value, Next |-> Garbage,
     Freed |-> 0, KeyFreed |-> 0, StrLive |-> (Value.Type = "STRING")]

AddResult(h, f, o) == [heap |-> h, fault |-> f, obj |-> o]

RECURSIVE tailScan(_, _)
\* while (CurrentMember->Next != nullptr) CurrentMember = CurrentMember->Next;
tailScan(h, CurrentMember) ==
    IF ~Live(h, CurrentMember)
    THEN [node |-> CurrentMember, fault |-> DerefFault(h, CurrentMember)]
    ELSE IF h[CurrentMember].Next = NULL
    THEN [node |-> CurrentMember, fault |-> NoFault]
    ELSE tailScan(h, h[CurrentMember].Next)

\* The body every addJsonMember overload shares after its argument check.
appendMember(h, JsonObject, Key, Value, Garbage) ==
    LET NewMember == Len(h) + 1
        h1 == Append(h, setJsonMemberValue(Key, Value, Garbage))
    IN  IF JsonObject.First = NULL
        THEN AddResult(h1, NoFault, [JsonObject EXCEPT !.First = NewMember])
        ELSE LET t == tailScan(h1, JsonObject.First)
             IN  IF t.fault # NoFault
                 THEN AddResult(h1, t.fault, JsonObject)
                 ELSE AddResult([h1 EXCEPT ![t.node].Next = NewMember], NoFault, JsonObject)

\* if (Key == '\0') return;   -- compares the pointer with the null pointer
KeyNotSpecified(Key) == Key = NullKey

addJsonMember_String(h, JsonObject, Key, String, Garbage) ==
    IF KeyNotSpecified(Key) THEN AddResult(h, NoFault, JsonObject)
    ELSE appendMember(h, JsonObject, Key, StringValue(String), Garbage)

addJsonMember_Number(h, JsonObject, Key, Number, Garbage) ==
    IF KeyNotSpecified(Key) THEN AddResult(h, NoFault, JsonObject)
    ELSE appendMember(h, JsonObject, Key, NumberValue(Number), Garbage)

addJsonMember_Boolean(h, JsonObject, Key, Boolean, Garbage) ==
    IF KeyNotSpecified(Key) THEN AddResult(h, NoFault, JsonObject)
    ELSE appendMember(h, JsonObject, Key, BooleanValue(Boolean), Garbage)

addJsonMember_Child(h, JsonObject, Key, Child, Garbage) ==
    IF Child = NULL \/ KeyNotSpecified(Key) THEN AddResult(h, NoFault, JsonObject)
    ELSE appendMember(h, JsonObject, Key, MemberValue(Child), Garbage)

addJsonMember_Object(h, JsonObject, Key, Child, Garbage) ==
    IF Child.First = NULL \/ KeyNotSpecified(Key) THEN AddResult(h, NoFault, JsonObject)
    ELSE addJsonMember_Child(h, JsonObject, Key, Child.First, Garbage)

\* ArrayHead is the caller's buffer (a sequence); NullArray is a null ArrayHead.
NullArray == <<[json_value EXCEPT !.Type = "<nullptr>"]>>

addJsonMember_Array(h, JsonObject, Key, ArrayHead, ArraySize, Garbage) ==
    IF ArrayHead = NullArray \/ KeyNotSpecified(Key) THEN AddResult(h, NoFault, JsonObject)
    ELSE appendMember(h, JsonObject, Key,
                      ArrayValue(SubSeq(ArrayHead, 1, ArraySize), ArraySize), Garbage)

addJsonMemberNull(h, JsonObject, Key, Garbage) ==
    IF KeyNotSpecified(Key) THEN AddResult(h, NoFault, JsonObject)
    ELSE appendMember(h, JsonObject, Key, NullValue, Garbage)

(***************************************************************************)
(* Destroy                                                                 *)
(***************************************************************************)
Mem(h, f) == [heap |-> h, fault |-> f]

\* free(KeyMemory); free(TargetMember);
freeMember(h, TargetMember) ==
    [h EXCEPT ![TargetMember].Freed = @ + 1, ![TargetMember].KeyFreed = @ + 1]

RECURSIVE destroyJsonMember(_, _)
RECURSIVE destroyJsonMemberLoop(_, _, _)

\* The while loop of destroyJsonMember: TargetMember is destroyed, then the
\* loop goes on with NextTarget, the sibling read before the free.
destroyJsonMemberLoop(m, TargetMember, NextTarget) ==
    IF m.fault # NoFault \/ TargetMember = NULL THEN m
    ELSE IF ~Live(m.heap, TargetMember) THEN Mem(m.heap, DerefFault(m.heap, TargetMember))
    ELSE LET m1 == IF m.heap[TargetMember].Value.Type = "MEMBER"
                   THEN destroyJsonMember(m, m.heap[TargetMember].Value.Child)
                   ELSE m
         IN  IF m1.fault # NoFault THEN m1
             ELSE IF ~Live(m1.heap, TargetMember) THEN Mem(m1.heap, "double_free")
             ELSE LET h2 == freeMember(m1.heap, TargetMember)
                  IN  IF NextTarget = NULL THEN Mem(h2, NoFault)
                      ELSE IF ~Live(h2, NextTarget) THEN Mem(h2, DerefFault(h2, NextTarget))
                      ELSE destroyJsonMemberLoop(Mem(h2, NoFault), NextTarget, h2[NextTarget].Next)

\* void destroyJsonMember(json_member* JsonMember)
destroyJsonMember(m, JsonMember) ==
    IF m.fault # NoFault THEN m
    ELSE IF ~Live(m.heap, JsonMember) THEN Mem(m.heap, DerefFault(m.heap, JsonMember))
    ELSE destroyJsonMemberLoop(m, JsonMember, m.heap[JsonMember].Next)

\* void destroyJsonObject(json_object* JsonObject); the pointer is never null here.
destroyJsonObject(h, JsonObject) ==
    LET m == destroyJsonMember(Mem(h, NoFault), JsonObject.First)
    IN  AddResult(m.heap, m.fault,
                  IF m.fault = NoFault THEN [JsonObject EXCEPT !.First = NULL] ELSE JsonObject)

(***************************************************************************)
(* Delete                                                                  *)
(***************************************************************************)
DelResult(h, f, r) == [heap |-> h, fault |-> f, result |-> r]

RECURSIVE deleteJsonMember(_, _, _)

\* bool32_t deleteJsonMember(json_member* JsonMember, const char* Key)
deleteJsonMember(h, TargetMember, Key) ==
    IF ~Live(h, TargetMember) THEN DelResult(h, DerefFault(h, TargetMember), FALSE)
    ELSE LET ToDelete == h[TargetMember].Next
         IN  IF ToDelete = NULL THEN DelResult(h, NoFault, FALSE)
             ELSE IF ~Live(h, ToDelete) THEN DelResult(h, DerefFault(h, ToDelete), FALSE)
             ELSE IF h[ToDelete].Key = Key
             THEN LET h1 == [h EXCEPT ![TargetMember].Next = h[ToDelete].Next]
                      m == destroyJsonMember(Mem(h1, NoFault), ToDelete)
                  IN  DelResult(m.heap, m.fault, m.fault = NoFault)
             ELSE LET r == IF h[ToDelete].Value.Type = "MEMBER"
                           THEN deleteJsonMember(h, h[ToDelete].Value.Child, Key)
                           ELSE DelResult(h, NoFault, FALSE)
                  IN  IF r.fault # NoFault \/ r.result THEN r
                      ELSE deleteJsonMember(r.heap, ToDelete, Key)

\* bool32_t deleteJsonMember(json_object& JsonObject, const char* Key)
deleteJsonMemberObject(h, JsonObject, Key) ==
    IF JsonObject.First = NULL
    THEN [heap |-> h, fault |-> NoFault, obj |-> JsonObject, result |-> TRUE]
    ELSE IF ~Live(h, JsonObject.First)
    THEN [heap |-> h, fault |-> DerefFault(h, JsonObject.First), obj |-> JsonObject,
          result |-> FALSE]
    ELSE IF h[JsonObject.First].Key = Key
    THEN LET Temp == JsonObject.First
             m == destroyJsonMember(Mem(h, NoFault), Temp)
         IN  [heap |-> m.heap, fault |-> m.fault,
              obj |-> [JsonObject EXCEPT !.First = h[Temp].Next],
              result |-> (m.fault = NoFault)]
    ELSE LET r == deleteJsonMember(h, JsonObject.First, Key)
         IN  [heap |-> r.heap, fault |-> r.fault, obj |-> JsonObject, result |-> r.result]

(***************************************************************************)
(* Tokenizer.  A buffer is a sequence of characters; BufferIndex counts    *)
(* from 0.  InputJsonBuffer holds the memory from the buffer's address on: *)
(* the first InputJsonFileSize characters are the data, what follows is    *)
(* whatever lies behind the allocation; memory behind the modelled part    *)
(* reads as NUL.                                                           *)
(***************************************************************************)
NUL == "NUL"
QUOTE == "\""

JSON_TOKEN_STRING_SIZE == 64

At(buf, i) == IF i < Len(buf) THEN buf[i + 1] ELSE NUL

isWhiteSpace(Character) == Character \in {" ", "\n", "\t", "\r"}

isNumber(Character) == Character \in {"0", "1", "2", "3", "4", "5", "6", "7", "8", "9"}

RECURSIVE Cat(_)
\* The C string made of the characters of s.
Cat(s) == IF s = <<>> THEN "" ELSE Head(s) \o Cat(Tail(s))

\* json_token plus the BufferIndex after the call; overflow says that the
\* copy into String[JSON_TOKEN_STRING_SIZE] wrote behind the array.
json_token(Type, String, idx) ==
    [Type |-> Type, String |-> Cat(String), text |-> String, idx |-> idx,
     overflow |-> Len(String) >= JSON_TOKEN_STRING_SIZE]

RECURSIVE skipWhiteSpace(_, _)
skipWhiteSpace(buf, i) == IF isWhiteSpace(At(buf, i)) THEN skipWhiteSpace(buf, i + 1) ELSE i

RECURSIVE scanString(_, _)
\* while (buf[i] != '"' && buf[i] != '\0') i++;
scanString(buf, i) == IF At(buf, i) # QUOTE /\ At(buf, i) # NUL THEN scanString(buf, i + 1) ELSE i

RECURSIVE scanNumber(_, _)
\* while (isNumber(buf[i]) || buf[i] == '.' || buf[i] == 'e' || buf[i] == '-') i++;
scanNumber(buf, i) ==
    IF isNumber(At(buf, i)) \/ At(buf, i) \in {".", "e", "-"} THEN scanNumber(buf, i + 1) ELSE i

\* strncmp(&buf[i], Literal, Len(Literal)) == 0
strncmpEqual(buf, i, Literal) == \A k \in 1..Len(Literal) : At(buf, i + k - 1) = Literal[k]

Punctuation(Character) ==
    CASE Character = "{" -> "OBJECT_START"
      [] Character = "}" -> "OBJECT_END"
      [] Character = "[" -> "ARRAY_START"
      [] Character = "]" -> "ARRAY_END"
      [] Character = "," -> "COMMA"
      [] Character = ":" -> "COLON"
      [] OTHER -> "INVALID"

\* json_token tokenizeString(const char* InputJsonBuffer, size_t &BufferIndex)
tokenizeString(buf, BufferIndex0) ==
    LET i == skipWhiteSpace(buf, BufferIndex0)
        c == At(buf, i)
    IN  IF Punctuation(c) # "INVALID" THEN json_token(Punctuation(c), <<>>, i + 1)
        ELSE IF c = QUOTE
        THEN LET StartIndex == i + 1
                 e == scanString(buf, StartIndex)
             IN  IF At(buf, e) = NUL THEN json_token("INVALID", <<>>, e)
                 ELSE json_token("STRING", SubSeq(buf, StartIndex + 1, e), e + 1)
        ELSE IF c = "-" \/ isNumber(c)
        THEN LET e == scanNumber(buf, i + 1)
             IN  IF At(buf, e) = NUL THEN json_token("INVALID", <<>>, e)
                 ELSE json_token("NUMBER", SubSeq(buf, i + 1, e), e)
        ELSE IF c = "t" /\ strncmpEqual(buf, i, <<"t", "r", "u", "e">>)
        THEN json_token("BOOLEAN", <<"t", "r", "u", "e">>, i + 4)
        ELSE IF c = "f" /\ strncmpEqual(buf, i, <<"f", "a", "l", "s", "e">>)
        THEN json_token("BOOLEAN", <<"f", "a", "l", "s", "e">>, i + 5)
        ELSE IF c = "n" /\ strncmpEqual(buf, i, <<"n", "u", "l", "l">>)
        THEN json_token("NULL", <<"n", "u", "l", "l">>, i + 4)
        ELSE json_token("INVALID", <<>>, i)

(***************************************************************************)
(* Parser                                                                  *)
(***************************************************************************)
DigitValue(Character) ==
    CASE Character = "0" -> 0 [] Character = "1" -> 1 [] Character = "2" -> 2
      [] Character = "3" -> 3 [] Character = "4" -> 4 [] Character = "5" -> 5
      [] Character = "6" -> 6 [] Character = "7" -> 7 [] Character = "8" -> 8
      [] Character = "9" -> 9

INT32_MAX == 2147483647

RECURSIVE atofDigits(_, _, _)
\* The value of the digits of String from position k on, added to Acc; -1
\* when it is greater than INT32_MAX.
atofDigits(String, k, Acc) ==
    IF k <= Len(String) /\ isNumber(String[k])
    THEN atofDigits(String, k + 1,
                    IF Acc = -1 \/ Acc > (INT32_MAX - DigitValue(String[k])) \div 10
                    THEN -1
                    ELSE 10 * Acc + DigitValue(String[k]))
    ELSE Acc

RECURSIVE digitRun(_, _)
\* The digits of String from position k up to the first character that is none.
digitRun(String, k) ==
    IF k <= Len(String) /\ isNumber(String[k]) THEN <<String[k]>> \o digitRun(String, k + 1)
    ELSE <<>>

RECURSIVE significantDigits(_, _)
\* The leading digits of String from position k on, without leading zeros.
significantDigits(String, k) ==
    IF k <= Len(String) /\ String[k] = "0" THEN significantDigits(String, k + 1)
    ELSE digitRun(String, k)

\* The double for the digits of String, n being their value.
atofValue(String, Negative, n) ==
    IF n = -1
    THEN [int |-> 0,
          wide |-> (IF Negative THEN <<"-">> ELSE <<>>)
                      \o significantDigits(String, IF Negative THEN 2 ELSE 1)]
    ELSE float64_t(IF Negative THEN 0 - n ELSE n)

\* atof on the text of a Number token: an optional sign and the leading
\* digits (the inputs of this model carry no fraction and no exponent).
atof(String) ==
    IF String # <<>> /\ String[1] = "-" THEN atofValue(String, TRUE, atofDigits(String, 2, 0))
    ELSE atofValue(String, FALSE, atofDigits(String, 1, 0))

\* Mutant: the comparison is made with "false".
strncmpTrue_False(String) == String = "false"

\* strncmp(Token.String, "true", 4) == 0 on the String of a Boolean token.
strncmpTrue(String) == String = "true"

\* strncpy into json_token::String wrote behind the array: undefined behaviour.
TokenOverflow == "token_overflow"

\* What parseStringToJson hands back: Result, BufferIndex, the heap, and
\* whether undefined behaviour happened on the way.
Parsed(o, idx, h, f) == [obj |-> o, idx |-> idx, heap |-> h, fault |-> f]

Invalidated(Result) == [Result EXCEPT !.IsValid = FALSE]

\* An element of the malloc'ed ValueArray that pass 2 has not written.
UninitValue == [json_value EXCEPT !.Type = "<uninitialised>"]

RECURSIVE parseStringToJson(_, _, _, _, _)
RECURSIVE parseMembers(_, _, _, _, _, _)
RECURSIVE arrayPass1(_, _, _, _, _, _)
RECURSIVE arrayPass2(_, _, _, _, _, _, _)

\* Where pass 1 stands: ok = FALSE is the default case (invalid token).
Pass1(ok, ArraySize, idx, h, f) ==
    [ok |-> ok, ArraySize |-> ArraySize, idx |-> idx, heap |-> h, fault |-> f]

\* Pass 1, case JSON_TOKEN_OBJECT_START, after the nested parse c that began
\* at ArrayBufferIndex: BufferIndex = ArrayBufferIndex; ArraySize++.  A nested
\* parse that did not move reads the same '{' again, for ever.
arrayPass1Object(buf, size, ArrayBufferIndex, g, ArraySize, c) ==
    IF c.fault # NoFault THEN Pass1(FALSE, ArraySize, c.idx, c.heap, c.fault)
    ELSE IF c.idx = ArrayBufferIndex THEN Pass1(FALSE, ArraySize, c.idx, c.heap, "hang")
    ELSE arrayPass1(buf, size, tokenizeString(buf, c.idx), c.heap, g, ArraySize + 1)

\* Mutant: pass 1 counts the commas as elements too.
arrayPass1_CountsCommas(buf, size, ArrayToken, h, g, ArraySize) ==
    IF ArrayToken.overflow THEN Pass1(FALSE, ArraySize, ArrayToken.idx, h, TokenOverflow)
    ELSE IF ArrayToken.Type = "ARRAY_END" THEN Pass1(TRUE, ArraySize, ArrayToken.idx, h, NoFault)
    ELSE IF ArrayToken.Type = "OBJECT_START"
    THEN arrayPass1Object(buf, size, ArrayToken.idx - 1, g, ArraySize,
                          parseStringToJson(buf, size, ArrayToken.idx - 1, h, g))
    ELSE IF ArrayToken.Type \in {"NUMBER", "BOOLEAN", "NULL", "STRING", "COMMA"}
    THEN arrayPass1(buf, size, tokenizeString(buf, ArrayToken.idx), h, g, ArraySize + 1)
    ELSE Pass1(FALSE, ArraySize, ArrayToken.idx, h, NoFault)

\* Pass 1 over an array: counts the elements.  ArrayToken is the token just
\* read, ArrayToken.idx the BufferIndex behind it.
arrayPass1(buf, size, ArrayToken, h, g, ArraySize) ==
    IF ArrayToken.overflow THEN Pass1(FALSE, ArraySize, ArrayToken.idx, h, TokenOverflow)
    ELSE IF ArrayToken.Type = "ARRAY_END" THEN Pass1(TRUE, ArraySize, ArrayToken.idx, h, NoFault)
    ELSE IF ArrayToken.Type = "OBJECT_START"
    THEN arrayPass1Object(buf, size, ArrayToken.idx - 1, g, ArraySize,
                          parseStringToJson(buf, size, ArrayToken.idx - 1, h, g))
    ELSE IF ArrayToken.Type \in {"NUMBER", "BOOLEAN", "NULL", "STRING", "COMMA"}
    THEN arrayPass1(buf, size, tokenizeString(buf, ArrayToken.idx), h, g,
                    IF ArrayToken.Type = "COMMA" THEN ArraySize ELSE ArraySize + 1)
    ELSE Pass1(FALSE, ArraySize, ArrayToken.idx, h, NoFault)

\* ValueArray[ValueArrayIndex] = v; behind the allocation it is a heap overflow.
storeElement(ValueArray, ValueArrayIndex, v) ==
    IF ValueArrayIndex < Len(ValueArray)
    THEN [ValueArray |-> [ValueArray EXCEPT ![ValueArrayIndex + 1] = v], fault |-> NoFault]
    ELSE [ValueArray |-> ValueArray, fault |-> "heap_overflow"]

\* Where pass 2 stands.
Pass2(ok, ValueArray, idx, h, f) ==
    [ok |-> ok, ValueArray |-> ValueArray, idx |-> idx, heap |-> h, fault |-> f]

\* Pass 2 after the element has been written (w): ValueArrayIndex++ and the
\* next token.
arrayPass2Stored(buf, size, idx, h, g, ValueArray, ValueArrayIndex, w) ==
    IF w.fault # NoFault THEN Pass2(FALSE, ValueArray, idx, h, w.fault)
    ELSE arrayPass2(buf, size, tokenizeString(buf, idx), h, g, w.ValueArray, ValueArrayIndex + 1)

\* Pass 2, case JSON_TOKEN_OBJECT_START, after the nested parse TempObject.
arrayPass2Object(buf, size, ArrayBufferIndex, g, ValueArray, ValueArrayIndex, TempObject) ==
    IF TempObject.fault # NoFault
    THEN Pass2(FALSE, ValueArray, TempObject.idx, TempObject.heap, TempObject.fault)
    ELSE IF TempObject.idx = ArrayBufferIndex
    THEN Pass2(FALSE, ValueArray, TempObject.idx, TempObject.heap, "hang")
    ELSE arrayPass2Stored(buf, size, TempObject.idx, TempObject.heap, g, ValueArray, ValueArrayIndex,
                          storeElement(ValueArray, ValueArrayIndex,
                                       MemberValue(TempObject.obj.First)))

\* The json_value pass 2 writes for a scalar token.
elementValue(ArrayToken) ==
    CASE ArrayToken.Type = "NUMBER" -> NumberValue(atof(ArrayToken.text))
      [] ArrayToken.Type = "BOOLEAN" -> BooleanValue(strncmpTrue(ArrayToken.String))
      [] ArrayToken.Type = "NULL" -> NullValue
      [] ArrayToken.Type = "STRING" -> StringValue(ArrayToken.String)

\* Pass 2 over an array: writes the elements into ValueArray.
arrayPass2(buf, size, ArrayToken, h, g, ValueArray, ValueArrayIndex) ==
    IF ArrayToken.overflow THEN Pass2(FALSE, ValueArray, ArrayToken.idx, h, TokenOverflow)
    ELSE IF ArrayToken.Type = "ARRAY_END" THEN Pass2(TRUE, ValueArray, ArrayToken.idx, h, NoFault)
    ELSE IF ArrayToken.Type = "OBJECT_START"
    THEN arrayPass2Object(buf, size, ArrayToken.idx - 1, g, ValueArray, ValueArrayIndex,
                          parseStringToJson(buf, size, ArrayToken.idx - 1, h, g))
    ELSE IF ArrayToken.Type \in {"NUMBER", "BOOLEAN", "NULL", "STRING"}
    THEN arrayPass2Stored(buf, size, ArrayToken.idx, h, g, ValueArray, ValueArrayIndex,
                          storeElement(ValueArray, ValueArrayIndex, elementValue(ArrayToken)))
    ELSE IF ArrayToken.Type = "COMMA"
    THEN arrayPass2(buf, size, tokenizeString(buf, ArrayToken.idx), h, g, ValueArray, ValueArrayIndex)
    ELSE Pass2(FALSE, ValueArray, ArrayToken.idx, h, NoFault)

\* The value switch has added the member (a is what addJsonMember left):
\* break, on to the comma.
valueAdded(a, idx) ==
    [obj |-> a.obj, idx |-> idx, heap |-> a.heap, fault |-> a.fault, return |-> FALSE]

\* Result.IsValid = false; return Result;
valueFailed(Result, idx, h, f) ==
    [obj |-> Invalidated(Result), idx |-> idx, heap |-> h, fault |-> f, return |-> TRUE]

\* Mutant: after the nested parse the cursor is left on the character the
\* nested parse read last.
valueObject_CursorOnBrace(KeyToken, g, Result, Child) ==
    IF Child.fault # NoFault
    THEN [obj |-> Result, idx |-> Child.idx, heap |-> Child.heap, fault |-> Child.fault,
          return |-> TRUE]
    ELSE valueAdded(addJsonMember_Object(Child.heap, Result, KeyToken.String, Child.obj, g),
                    Child.idx - 1)

\* case JSON_TOKEN_OBJECT_START of the value switch, after the nested parse.
valueObject(KeyToken, g, Result, Child) ==
    IF Child.fault # NoFault
    THEN [obj |-> Result, idx |-> Child.idx, heap |-> Child.heap, fault |-> Child.fault,
          return |-> TRUE]
    ELSE valueAdded(addJsonMember_Object(Child.heap, Result, KeyToken.String, Child.obj, g),
                    Child.idx)

\* case JSON_TOKEN_ARRAY_START after pass 2 (p2): addJsonMember of the array.
valueArrayFilled(KeyToken, g, Result, ArraySize, p2) ==
    IF p2.fault # NoFault \/ ~p2.ok THEN valueFailed(Result, p2.idx, p2.heap, p2.fault)
    ELSE valueAdded(addJsonMember_Array(p2.heap, Result, KeyToken.String, p2.ValueArray,
                                        ArraySize, g), p2.idx)

\* Mutant: the default case of pass 1 returns Result as it is.
valueArrayCounted_Lenient(buf, size, KeyToken, LocalStoreBufferIndex, g, Result, p1) ==
    IF p1.fault # NoFault THEN valueFailed(Result, p1.idx, p1.heap, p1.fault)
    ELSE IF ~p1.ok
    THEN [obj |-> Result, idx |-> p1.idx, heap |-> p1.heap, fault |-> NoFault, return |-> TRUE]
    ELSE valueArrayFilled(KeyToken, g, Result, p1.ArraySize,
                          arrayPass2(buf, size, tokenizeString(buf, LocalStoreBufferIndex),
                                     p1.heap, g, [i \in 1..p1.ArraySize |-> UninitValue], 0))

\* case JSON_TOKEN_ARRAY_START after pass 1 (p1): BufferIndex is restored to
\* LocalStoreBufferIndex, ValueArray is malloc'ed and pass 2 runs.
valueArrayCounted(buf, size, KeyToken, LocalStoreBufferIndex, g, Result, p1) ==
    IF p1.fault # NoFault \/ ~p1.ok THEN valueFailed(Result, p1.idx, p1.heap, p1.fault)
    ELSE valueArrayFilled(KeyToken, g, Result, p1.ArraySize,
                          arrayPass2(buf, size, tokenizeString(buf, LocalStoreBufferIndex),
                                     p1.heap, g, [i \in 1..p1.ArraySize |-> UninitValue], 0))

\* The switch on ValueToken: the member is added to Result, or the function
\* returns an invalid Result (return = TRUE).
parseValue(buf, size, KeyToken, ValueToken, h, g, Result) ==
    IF ValueToken.overflow
    THEN [obj |-> Result, idx |-> ValueToken.idx, heap |-> h, fault |-> TokenOverflow,
          return |-> TRUE]
    ELSE IF ValueToken.Type = "OBJECT_START"
    THEN valueObject(KeyToken, g, Result,
                     parseStringToJson(buf, size, ValueToken.idx - 1, h, g))
    ELSE IF ValueToken.Type = "ARRAY_START"
    THEN valueArrayCounted(buf, size, KeyToken, ValueToken.idx, g, Result,
                           arrayPass1(buf, size, tokenizeString(buf, ValueToken.idx), h, g, 0))
    ELSE IF ValueToken.Type = "STRING"
    THEN valueAdded(addJsonMember_String(h, Result, KeyToken.String, ValueToken.String, g),
                    ValueToken.idx)
    ELSE IF ValueToken.Type = "NUMBER"
    THEN valueAdded(addJsonMember_Number(h, Result, KeyToken.String, atof(ValueToken.text), g),
                    ValueToken.idx)
    ELSE IF ValueToken.Type = "BOOLEAN"
    THEN valueAdded(addJsonMember_Boolean(h, Result, KeyToken.String,
                                          strncmpTrue(ValueToken.String), g), ValueToken.idx)
    ELSE IF ValueToken.Type = "NULL"
    THEN valueAdded(addJsonMemberNull(h, Result, KeyToken.String, g), ValueToken.idx)
    ELSE valueFailed(Result, ValueToken.idx, h, NoFault)

\* Mutant: a token that is neither a comma nor '}' after a value makes the
\* parse fail.
parseComma_NeedsObjectEnd(buf, size, g, v, CommaToken) ==
    IF CommaToken.overflow THEN Parsed(v.obj, CommaToken.idx, v.heap, TokenOverflow)
    ELSE IF CommaToken.Type = "OBJECT_END" THEN Parsed(v.obj, CommaToken.idx, v.heap, NoFault)
    ELSE IF CommaToken.Type # "COMMA"
    THEN Parsed(Invalidated(v.obj), CommaToken.idx, v.heap, NoFault)
    ELSE parseMembers(buf, size, CommaToken.idx, v.heap, g, v.obj)

\* skip the comma: anything else ends the object, a comma starts the next
\* member (Token is not assigned inside the loop, so the loop condition
\* Token.Type != JSON_TOKEN_OBJECT_END never ends it).
parseComma(buf, size, g, v, CommaToken) ==
    IF CommaToken.overflow THEN Parsed(v.obj, CommaToken.idx, v.heap, TokenOverflow)
    ELSE IF CommaToken.Type # "COMMA" THEN Parsed(v.obj, CommaToken.idx, v.heap, NoFault)
    ELSE parseMembers(buf, size, CommaToken.idx, v.heap, g, v.obj)

\* After the value switch (v).
parseAfterValue(buf, size, g, v) ==
    IF v.fault # NoFault \/ v.return THEN Parsed(v.obj, v.idx, v.heap, v.fault)
    ELSE parseComma(buf, size, g, v, tokenizeString(buf, v.idx))

\* parse colon, then the value.
parseColon(buf, size, h, g, Result, KeyToken, ColonToken) ==
    IF ColonToken.overflow THEN Parsed(Result, ColonToken.idx, h, TokenOverflow)
    ELSE IF ColonToken.Type # "COLON" THEN Parsed(Invalidated(Result), ColonToken.idx, h, NoFault)
    ELSE parseAfterValue(buf, size, g,
                         parseValue(buf, size, KeyToken, tokenizeString(buf, ColonToken.idx),
                                    h, g, Result))

\* Mutant: a token that is no String at the key position ends the parse
\* without Result.IsValid = false.
parseKey_StaysValid(buf, size, h, g, Result, KeyToken) ==
    IF KeyToken.overflow THEN Parsed(Result, KeyToken.idx, h, TokenOverflow)
    ELSE IF KeyToken.Type # "STRING" THEN Parsed(Result, KeyToken.idx, h, NoFault)
    ELSE parseColon(buf, size, h, g, Result, KeyToken, tokenizeString(buf, KeyToken.idx))

\* parse key.
parseKey(buf, size, h, g, Result, KeyToken) ==
    IF KeyToken.overflow THEN Parsed(Result, KeyToken.idx, h, TokenOverflow)
    ELSE IF KeyToken.Type # "STRING" THEN Parsed(Invalidated(Result), KeyToken.idx, h, NoFault)
    ELSE parseColon(buf, size, h, g, Result, KeyToken, tokenizeString(buf, KeyToken.idx))

\* One turn of the member loop, while (Token.Type != JSON_TOKEN_OBJECT_END).
parseMembers(buf, size, idx, h, g, Result) ==
    parseKey(buf, size, h, g, Result, tokenizeString(buf, idx))

\* One turn of the top-level loop on the token read.
parseToken(buf, size, h, g, Token) ==
    IF Token.overflow THEN Parsed(json_object, Token.idx, h, TokenOverflow)
    ELSE IF Token.Type = "INVALID" THEN Parsed(json_object, Token.idx, h, NoFault)
    ELSE IF Token.Type = "OBJECT_START"
    THEN parseMembers(buf, size, Token.idx, h, g, json_object)
    ELSE parseStringToJson(buf, size, Token.idx, h, g)

\* json_object parseStringToJson(const char*, size_t InputJsonFileSize, size_t &BufferIndex)
\* g is what the blocks malloc returns during the parse hold in their Next field.
parseStringToJson(buf, size, idx, h, g) ==
    IF ~(idx < size) THEN Parsed(json_object, idx, h, NoFault)
    ELSE parseToken(buf, size, h, g, tokenizeString(buf, idx))

(***************************************************************************)
(* Printing.  The output is the sequence of characters written to stdout;  *)
(* the characters of one key or string payload stay together as a single   *)
(* element, and a line written by logOutput is a single element too.       *)
(***************************************************************************)
PrintResult(out, f) == [out |-> out, fault |-> f]

\* Two pieces of output one after the other; what follows undefined
\* behaviour is not printed.
printThen(a, b) == IF a.fault # NoFault THEN a ELSE PrintResult(a.out \o b.out, b.fault)

DigitChar(d) == <<"0", "1", "2", "3", "4", "5", "6", "7", "8", "9">>[d + 1]

RECURSIVE printDigits(_)
printDigits(n) == IF n < 10 THEN <<DigitChar(n)>> ELSE printDigits(n \div 10) \o <<DigitChar(n % 10)>>

INT32_MIN_TEXT == <<"-", "2", "1", "4", "7", "4", "8", "3", "6", "4", "8">>

\* printf("%d", (int32_t)JsonValue.Number): the numbers of this model are
\* integers, so isFractionalPartZero holds.  The conversion of a double
\* beyond the range of int32_t is undefined behaviour.
printNumber(Number) ==
    IF Number.wide = <<>>
    THEN PrintResult(IF Number.int < 0 THEN <<"-">> \o printDigits(0 - Number.int)
                     ELSE printDigits(Number.int), NoFault)
    ELSE IF Number.wide = INT32_MIN_TEXT THEN PrintResult(INT32_MIN_TEXT, NoFault)
    ELSE PrintResult(<<>>, "int_overflow")

RECURSIVE printJsonValue(_, _)
RECURSIVE printJsonMember(_, _)
RECURSIVE printMemberLoop(_, _)
RECURSIVE printElements(_, _, _)

\* The for loop of case JSON_TYPE_ARRAY, from element Index (0-based) on.
printElements(h, JsonValue, Index) ==
    IF ~(Index < JsonValue.Size) THEN PrintResult(<<>>, NoFault)
    ELSE IF ~(Index < Len(JsonValue.Array)) THEN PrintResult(<<>>, "out_of_bounds")
    ELSE printThen(printJsonValue(h, JsonValue.Array[Index + 1]),
                   printThen(PrintResult(IF Index < JsonValue.Size - 1 THEN <<",", " ">> ELSE <<>>,
                                         NoFault),
                             printElements(h, JsonValue, Index + 1)))

\* void printJsonValue(json_value JsonValue)
printJsonValue(h, JsonValue) ==
    CASE JsonValue.Type = "MEMBER" -> printJsonMember(h, JsonValue.Child)
      [] JsonValue.Type = "ARRAY" ->
            printThen(PrintResult(<<"[">>, NoFault),
                      printThen(printElements(h, JsonValue, 0), PrintResult(<<"]">>, NoFault)))
      [] JsonValue.Type = "STRING" -> PrintResult(<<QUOTE, JsonValue.String, QUOTE>>, NoFault)
      [] JsonValue.Type = "NUMBER" -> printNumber(JsonValue.Number)
      [] JsonValue.Type = "BOOLEAN" ->
            PrintResult(IF JsonValue.Boolean THEN <<"t", "r", "u", "e">>
                        ELSE <<"f", "a", "l", "s", "e">>, NoFault)
      [] JsonValue.Type = "NULL" -> PrintResult(<<"n", "u", "l", "l">>, NoFault)
      [] OTHER -> PrintResult(<<"[ERROR] Invalid json_type found.\n">>, NoFault)

\* The while (true) loop of printJsonMember at the live member TargetMember.
printMemberLoop(h, TargetMember) ==
    printThen(PrintResult(<<QUOTE, h[TargetMember].Key, QUOTE, " ", ":", " ">>, NoFault),
              printThen(printJsonValue(h, h[TargetMember].Value),
                        IF h[TargetMember].Next = NULL THEN PrintResult(<<>>, NoFault)
                        ELSE IF ~Live(h, h[TargetMember].Next)
                        THEN PrintResult(<<",", " ">>, DerefFault(h, h[TargetMember].Next))
                        ELSE printThen(PrintResult(<<",", " ">>, NoFault),
                                       printMemberLoop(h, h[TargetMember].Next))))

\* void printJsonMember(json_member Member), called with *Member.
printJsonMember(h, Member) ==
    IF ~Live(h, Member) THEN PrintResult(<<>>, DerefFault(h, Member))
    ELSE printThen(PrintResult(<<"{">>, NoFault),
                   printThen(printMemberLoop(h, Member), PrintResult(<<"}">>, NoFault)))

\* void printJsonObject(json_object Object)
printJsonObject(h, Object) ==
    IF Object.First = NULL THEN PrintResult(<<"This JSON object is empty.\n">>, NoFault)
    ELSE IF ~Object.IsValid THEN PrintResult(<<"This JSON object is not valid.\n">>, NoFault)
    ELSE printThen(printJsonMember(h, Object.First), PrintResult(<<"\n">>, NoFault))

(***************************************************************************)
(* The program using the API: two caller-held json_object structs; object  *)
(* 2 can be attached to object 1 as a nested object or as an array element.*)
(***************************************************************************)
\* What the last call returned: result (bool32_t), val (json_value), size
\* (int64_t), member (json_member), the Index it was given, and what it
\* wrote to stdout (out).
Ret(op, o, k, r, v) ==
    [op |-> op, obj |-> o, key |-> k, result |-> r, val |-> v,
     size |-> 0, index |-> 0, member |-> json_member, out |-> <<>>]

Strings == {"x"}
Numbers == {float64_t(Len(heap) + 1)}

\* The array buffers a caller passes: a scalar, or the object held by objs[2].
ArrayArgs ==
    {<<NumberValue(float64_t(1))>>} \cup
    (IF objs[2].First # NULL THEN {<<MemberValue(objs[2].First)>>} ELSE {})

Init ==
    /\ heap = <<>>
    /\ objs = [o \in ObjIds |-> json_object]
    /\ fault = NoFault
    /\ ret = Ret("init", 0, "", FALSE, json_value)
    /\ InputJsonBuffer = <<>>
    /\ InputJsonFileSize = 0
    /\ BufferIndex = 0

ParseUnchanged == UNCHANGED <<InputJsonBuffer, InputJsonFileSize, BufferIndex>>

Added(op, o, k, r) ==
    /\ heap' = r.heap
    /\ objs' = [objs EXCEPT ![o] = r.obj]
    /\ fault' = r.fault
    /\ ret' = Ret(op, o, k, FALSE, json_value)
    /\ ParseUnchanged

CanAdd == fault = NoFault /\ Len(heap) < MaxNodes

InsertString(o, k, g) ==
    /\ CanAdd
    /\ \E s \in Strings : Added("insertString", o, k, addJsonMember_String(heap, objs[o], k, s, g))

InsertNumber(o, k, g) ==
    /\ CanAdd
    /\ \E n \in Numbers : Added("insertNumber", o, k, addJsonMember_Number(heap, objs[o], k, n, g))

InsertBoolean(o, k, g) ==
    /\ CanAdd
    /\ Added("insertBoolean", o, k, addJsonMember_Boolean(heap, objs[o], k, TRUE, g))

InsertNull(o, k, g) ==
    /\ CanAdd
    /\ Added("insertNull", o, k, addJsonMemberNull(heap, objs[o], k, g))

InsertChild(k, g) ==
    /\ CanAdd
    /\ Added("insertChild", 1, k, addJsonMember_Object(heap, objs[1], k, objs[2], g))

InsertArray(k, g) ==
    /\ CanAdd
    /\ \E a \in ArrayArgs :
          Added("insertArray", 1, k, addJsonMember_Array(heap, objs[1], k, a, Len(a), g))

Get(o, k) ==
    /\ fault = NoFault
    /\ LET r == getJsonValueObject(heap, objs[o], k)
       IN  /\ fault' = r.fault
           /\ ret' = Ret("get", o, k, FALSE, r.val)
    /\ UNCHANGED <<heap, objs>>
    /\ ParseUnchanged

\* getJsonValueArraySize(getJsonValue(JsonObject, Key))
ArraySizeReturn(o, k, r) ==
    /\ fault' = r.fault
    /\ ret' = [Ret("arraySize", o, k, FALSE, r.val) EXCEPT !.size = getJsonValueArraySize(r.val)]

ArraySize(o, k) ==
    /\ fault = NoFault
    /\ ArraySizeReturn(o, k, getJsonValueObject(heap, objs[o], k))
    /\ UNCHANGED <<heap, objs>>
    /\ ParseUnchanged

\* The indices main passes: 0 .. size - 1 of an array.
IndexArgs(JsonValue) == IF JsonValue.Type = "ARRAY" THEN 0..(JsonValue.Size - 1) ELSE {0}

ArrayMemberReturn(o, k, Index, JsonValue, m) ==
    /\ fault' = m.fault
    /\ ret' = [Ret("arrayMember", o, k, FALSE, JsonValue) EXCEPT
                   !.index = Index, !.member = m.member]

ArrayMemberOf(o, k, JsonValue) ==
    \E Index \in IndexArgs(JsonValue) :
        ArrayMemberReturn(o, k, Index, JsonValue, getJsonValueArrayMember(heap, JsonValue, Index))

\* getJsonValueArrayMember(getJsonValue(JsonObject, Key), Index)
ArrayMember(o, k) ==
    /\ fault = NoFault
    /\ getJsonValueObject(heap, objs[o], k).fault = NoFault
    /\ ArrayMemberOf(o, k, getJsonValueObject(heap, objs[o], k).val)
    /\ UNCHANGED <<heap, objs>>
    /\ ParseUnchanged

PrintReturn(o, r) ==
    /\ fault' = r.fault
    /\ ret' = [Ret("print", o, "", FALSE, json_value) EXCEPT !.out = r.out]

\* printJsonObject(JsonObject)
PrintObject(o) ==
    /\ fault = NoFault
    /\ PrintReturn(o, printJsonObject(heap, objs[o]))
    /\ UNCHANGED <<heap, objs>>
    /\ ParseUnchanged

Remove(o, k) ==
    /\ fault = NoFault
    /\ LET r == deleteJsonMemberObject(heap, objs[o], k)
       IN  /\ heap' = r.heap
           /\ objs' = [objs EXCEPT ![o] = r.obj]
           /\ fault' = r.fault
           /\ ret' = Ret("remove", o, k, r.result, json_value)
    /\ ParseUnchanged

Destroy(o) ==
    /\ fault = NoFault
    /\ LET r == destroyJsonObject(heap, objs[o])
       IN  /\ heap' = r.heap
           /\ objs' = [objs EXCEPT ![o] = r.obj]
           /\ fault' = r.fault
           /\ ret' = Ret("destroy", o, "", FALSE, json_value)
    /\ ParseUnchanged

Next ==
    \/ \E k \in KeyArgs, g \in UninitNext : InsertString(1, k, g)
    \/ \E k \in Keys, g \in UninitNext : InsertNumber(1, k, g)
    \/ \E k \in Keys, g \in UninitNext : InsertNumber(2, k, g)
    \/ \E k \in EmptyKeyArgs, g \in UninitNext : InsertBoolean(1, k, g)
    \/ \E k \in EmptyKeyArgs, g \in UninitNext : InsertNull(1, k, g)
    \/ \E k \in NestKeyArgs, g \in UninitNext : InsertChild(k, g)
    \/ \E k \in NestKeyArgs, g \in UninitNext : InsertArray(k, g)
    \/ \E k \in Keys : Get(1, k)
    \/ \E k \in Keys : Remove(1, k)
    \/ Destroy(1)

Spec == Init /\ [][Next]_vars

(***************************************************************************)
(* The program parsing a buffer, as main does: parse from BufferIndex 0,   *)
(* query the result, destroy it.  The inputs are the concatenations of at  *)
(* most MaxPieces pieces, with every piece boundary as the declared size,  *)
(* and the named examples.                                                 *)
(***************************************************************************)
Str(s) == <<QUOTE>> \o s \o <<QUOTE>>
TRUE_TEXT == <<"t", "r", "u", "e">>
FALSE_TEXT == <<"f", "a", "l", "s", "e">>
NULL_TEXT == <<"n", "u", "l", "l">>

Pieces ==
    {<<"{">>, <<"}">>, <<"[">>, <<"]">>, <<",">>, <<" ">>, <<"1">>, TRUE_TEXT, FALSE_TEXT,
     NULL_TEXT,
     <<"{">> \o Str(<<"a">>) \o <<":">>, Str(<<"b">>) \o <<":">>, Str(<<"x">>)}

RECURSIVE Flat(_)
Flat(ps) == IF ps = <<>> THEN <<>> ELSE Head(ps) \o Flat(Tail(ps))

PieceSeqs == UNION {[1..k -> Pieces] : k \in 0..MaxPieces}

Input(buf, size) == [buf |-> buf, size |-> size]

\* {"a":{"b":1},"b":2}
ExampleNested ==
    <<"{">> \o Str(<<"a">>) \o <<":", "{">> \o Str(<<"b">>) \o <<":", "1", "}", ",">>
            \o Str(<<"b">>) \o <<":", "2", "}">>

\* {"a":1,"b":true}, of which the caller declares the first 7 characters: {"a":1,
ExampleTrailingComma ==
    <<"{">> \o Str(<<"a">>) \o <<":", "1", ",">> \o Str(<<"b">>) \o <<":">> \o TRUE_TEXT \o <<"}">>

\* {"a":[{"b":1},2],"b":"x"}
ExampleArray ==
    <<"{">> \o Str(<<"a">>) \o <<":", "[", "{">> \o Str(<<"b">>) \o <<":", "1", "}", ",", "2", "]", ",">>
            \o Str(<<"b">>) \o <<":">> \o Str(<<"x">>) \o <<"}">>

\* {"kk...k":1} with a key of JSON_TOKEN_STRING_SIZE characters
LongText == [i \in 1..JSON_TOKEN_STRING_SIZE |-> "k"]
ExampleLongKey == <<"{">> \o Str(LongText) \o <<":", "1", "}">>

\* {"a":[1,2,3]}
ExamplePairs == <<"{">> \o Str(<<"a">>) \o <<":", "[", "1", ",", "2", ",", "3", "]", "}">>

\* {"a":true,"b":null}
ExampleLiterals ==
    <<"{">> \o Str(<<"a">>) \o <<":">> \o TRUE_TEXT \o <<",">> \o Str(<<"b">>) \o <<":">>
            \o NULL_TEXT \o <<"}">>

\* {"a":[false,null,true]}
ExampleLiteralArray ==
    <<"{">> \o Str(<<"a">>) \o <<":", "[">> \o FALSE_TEXT \o <<",">> \o NULL_TEXT \o <<",">>
            \o TRUE_TEXT \o <<"]", "}">>

\* {"a":3000000000}
ExampleBigNumber ==
    <<"{">> \o Str(<<"a">>) \o <<":", "3", "0", "0", "0", "0", "0", "0", "0", "0", "0", "}">>

\* {"a":{}}
ExampleEmptyNested == <<"{">> \o Str(<<"a">>) \o <<":", "{", "}", "}">>

Examples ==
    {Input(ExampleBigNumber, Len(ExampleBigNumber)),
     Input(ExampleEmptyNested, Len(ExampleEmptyNested)),
     Input(ExampleLiterals, Len(ExampleLiterals)),
     Input(ExampleLiteralArray, Len(ExampleLiteralArray)),
     Input(ExamplePairs, Len(ExamplePairs)),
     Input(ExampleLongKey, Len(ExampleLongKey)),
     Input(ExampleNested, Len(ExampleNested)),
     Input(ExampleTrailingComma, 7),
     Input(ExampleTrailingComma, Len(ExampleTrailingComma)),
     Input(ExampleArray, Len(ExampleArray))}

Inputs ==
    {Input(Flat(x[1]), Len(Flat(SubSeq(x[1], 1, x[2])))) :
        x \in {y \in PieceSeqs \X (0..MaxPieces) : y[2] <= Len(y[1])}}
    \cup Examples

ParseInit ==
    /\ heap = <<>>
    /\ objs = [o \in ObjIds |-> json_object]
    /\ fault = NoFault
    /\ ret = Ret("init", 0, "", FALSE, json_value)
    /\ \E in \in Inputs : InputJsonBuffer = in.buf /\ InputJsonFileSize = in.size
    /\ BufferIndex = 0

\* The caller takes the returned json_object; BufferIndex was passed by reference.
ParseReturn(r) ==
    /\ heap' = r.heap
    /\ objs' = [objs EXCEPT ![1] = r.obj]
    /\ fault' = r.fault
    /\ BufferIndex' = r.idx
    /\ ret' = Ret("parse", 1, "", r.obj.IsValid, json_value)

Parse(g) ==
    /\ ret.op = "init"
    /\ ParseReturn(parseStringToJson(InputJsonBuffer, InputJsonFileSize, BufferIndex, heap, g))
    /\ UNCHANGED <<InputJsonBuffer, InputJsonFileSize>>

ParseNext ==
    \/ \E g \in UninitNext : Parse(g)
    \/ ret.op # "init" /\ \E k \in Keys : Get(1, k)
    \/ ret.op # "init" /\ PrintObject(1)
    \/ ret.op # "init" /\ \E k \in Keys : ArraySize(1, k)
    \/ ret.op # "init" /\ \E k \in Keys : ArrayMember(1, k)
    \/ ret.op # "init" /\ Destroy(1)

ParseSpec == ParseInit /\ [][ParseNext]_vars

(***************************************************************************)
(* Vocabulary of the properties: the member tree as the specification      *)
(* describes it, independent of the operations above.                      *)
(***************************************************************************)
RECURSIVE IsTree(_, _)
\* Every link reachable from m is null or a live block.
IsTree(h, m) ==
    \/ m = NULL
    \/ /\ Live(h, m)
       /\ IsTree(h, h[m].Next)
       /\ h[m].Value.Type = "MEMBER" => IsTree(h, h[m].Value.Child)
       /\ h[m].Value.Type = "ARRAY" =>
             \A i \in 1..Len(h[m].Value.Array) :
                h[m].Value.Array[i].Type = "MEMBER" => IsTree(h, h[m].Value.Array[i].Child)

RECURSIVE PreOrder(_, _)
\* Members reachable through sibling links and MemberRef values, depth first.
PreOrder(h, m) ==
    IF ~Live(h, m) THEN <<>>
    ELSE <<m>> \o (IF h[m].Value.Type = "MEMBER" THEN PreOrder(h, h[m].Value.Child) ELSE <<>>)
             \o PreOrder(h, h[m].Next)

RECURSIVE MemberList(_, _)
\* The member list of one object: the sibling chain from its head.
MemberList(h, m) == IF ~Live(h, m) THEN <<>> ELSE <<m>> \o MemberList(h, h[m].Next)

Range(seq) == {seq[i] : i \in 1..Len(seq)}

\* Position in PreOrder of the first member with that key, 0 when there is none.
FirstMatchIndex(h, m, Key) ==
    LET seq == PreOrder(h, m)
        hits == {i \in 1..Len(seq) : h[seq[i]].Key = Key}
    IN  IF hits = {} THEN 0 ELSE CHOOSE i \in hits : \A j \in hits : i <= j

FirstMatch(h, m, Key) ==
    IF FirstMatchIndex(h, m, Key) = 0 THEN NULL
    ELSE PreOrder(h, m)[FirstMatchIndex(h, m, Key)]

InsertOps == {"insertString", "insertNumber", "insertBoolean", "insertNull",
              "insertChild", "insertArray"}

(***************************************************************************)
(* C1: get(root, key) returns the Value of the first Member with that key  *)
(* in depth-first pre-order (own key, then the nested list, then the next  *)
(* sibling).                                                               *)
(***************************************************************************)
C1_LookupIsFirstPreOrderMatch ==
    (/\ ret.op = "get"
     /\ IsTree(heap, objs[ret.obj].First)
     /\ FirstMatch(heap, objs[ret.obj].First, ret.key) # NULL)
    => /\ fault = NoFault
       /\ ret.val = heap[FirstMatch(heap, objs[ret.obj].First, ret.key)].Value

\* {"a":{"b":n},"b":m}: get(root,"b") has returned the nested n, not m.
C1_Witness ==
    /\ ret.op = "get" /\ ret.key = "b" /\ fault = NoFault
    /\ IsTree(heap, objs[1].First)
    /\ objs[1].First # NULL
    /\ LET a == objs[1].First
       IN  /\ heap[a].Key = "a"
           /\ heap[a].Value.Type = "MEMBER"
           /\ heap[a].Value.Child # NULL
           /\ heap[heap[a].Value.Child].Key = "b"
           /\ heap[a].Next # NULL
           /\ heap[heap[a].Next].Key = "b"
           /\ ret.val = heap[heap[a].Value.Child].Value
           /\ ret.val # heap[heap[a].Next].Value

(***************************************************************************)
(* C2: after a successful remove, the tree is the previous tree with the   *)
(* one removed Member and the subtree it owns taken out: the other Members *)
(* keep key, value and order, and every Member still reachable from the    *)
(* head is still allocated.                                                *)
(***************************************************************************)
Subtree(h, r) ==
    <<r>> \o (IF h[r].Value.Type = "MEMBER" THEN PreOrder(h, h[r].Value.Child) ELSE <<>>)

\* seq without the block of n elements that starts at position i.
CutOut(seq, i, n) == SubSeq(seq, 1, i - 1) \o SubSeq(seq, i + n, Len(seq))

RemovedOne(h, First, h2, First2) ==
    LET before == PreOrder(h, First)
    IN  \E i \in 1..Len(before) :
           /\ PreOrder(h2, First2) = CutOut(before, i, Len(Subtree(h, before[i])))
           /\ MemberList(h2, First2) =
                SelectSeq(MemberList(h, First), LAMBDA n : n # before[i])
           /\ IsTree(h2, First2)
           /\ \A n \in Range(PreOrder(h2, First2)) :
                 h2[n].Key = h[n].Key /\ h2[n].Value = h[n].Value

C2_RemoveTakesOutOneMember ==
    [][(/\ ret'.op = "remove" /\ ret'.result /\ fault' = NoFault
        /\ IsTree(heap, objs[1].First)
        /\ FirstMatch(heap, objs[1].First, ret'.key) # NULL)
       => RemovedOne(heap, objs[1].First, heap', objs'[1].First)]_vars

(***************************************************************************)
(* C3: remove uses the precedence of lookup: whenever get(obj, key) finds  *)
(* a Member, remove(obj, key) removes that Member and returns true.        *)
(***************************************************************************)
C3_RemoveFollowsLookupPrecedence ==
    [][(/\ ret'.op = "remove"
        /\ IsTree(heap, objs[1].First)
        /\ getJsonValueObject(heap, objs[1], ret'.key).val.Type # "INVALID")
       => /\ fault' = NoFault
          /\ ret'.result
          /\ heap'[FirstMatch(heap, objs[1].First, ret'.key)].Freed = 1
          /\ FirstMatch(heap, objs[1].First, ret'.key)
                \notin Range(PreOrder(heap', objs'[1].First))]_vars

(***************************************************************************)
(* C4: remove returns true if and only if the call removed a Member; on an *)
(* object without members, or without that key, it returns false and       *)
(* leaves the object unchanged.                                            *)
(***************************************************************************)
C4_RemoveReturnsWhetherRemoved ==
    [][(ret'.op = "remove" /\ fault' = NoFault)
       => /\ ret'.result <=> (\E n \in 1..Len(heap) : heap'[n].Freed > heap[n].Freed)
          /\ ~ret'.result => UNCHANGED <<heap, objs>>]_vars

(***************************************************************************)
(* C5: destroy(root) frees every Member node of the tree exactly once: the *)
(* N members reachable through sibling links and MemberRef values and the  *)
(* D members of the objects held as array elements.                        *)
(***************************************************************************)
RECURSIVE AllMembers(_, _)
\* Members reachable through sibling links, MemberRef values and array elements.
AllMembers(h, m) ==
    IF ~Live(h, m) THEN {}
    ELSE {m} \cup AllMembers(h, h[m].Next)
             \cup (IF h[m].Value.Type = "MEMBER" THEN AllMembers(h, h[m].Value.Child) ELSE {})
             \cup UNION {IF h[m].Value.Array[i].Type = "MEMBER"
                         THEN AllMembers(h, h[m].Value.Array[i].Child) ELSE {} :
                         i \in 1..Len(h[m].Value.Array)}

C5_DestroyFreesEveryMemberOnce ==
    [][(/\ ret'.op = "destroy" /\ fault' = NoFault
        /\ IsTree(heap, objs[1].First))
       => \A n \in AllMembers(heap, objs[1].First) : heap'[n].Freed = 1]_vars

(***************************************************************************)
(* C6: a freed Member has had everything it owns freed: its key, its       *)
(* nested MemberRef subtree and its String payload.                        *)
(***************************************************************************)
C6_DestroyFreesOwnedMemory ==
    fault = NoFault =>
    \A n \in 1..Len(heap) :
       heap[n].Freed > 0 =>
          /\ heap[n].KeyFreed > 0
          /\ ~heap[n].StrLive
          /\ heap[n].Value.Type = "MEMBER" =>
                \A c \in Range(PreOrder([i \in 1..Len(heap) |-> [heap[i] EXCEPT !.Freed = 0]],
                                         heap[n].Value.Child)) : heap[c].Freed > 0

(***************************************************************************)
(* C7: every insert operation called with the empty key "" fails and adds  *)
(* nothing: the member list is the same before and after the call.         *)
(***************************************************************************)
C7_EmptyKeyRejected ==
    [][(ret'.op \in InsertOps /\ ret'.key = "") => UNCHANGED <<heap, objs>>]_vars

(***************************************************************************)
(* C8: a successful insert appends exactly one new Member at the tail: the *)
(* list after the call is the list before it followed by one Member with   *)
(* the given key; on an empty object the new Member becomes the head.      *)
(***************************************************************************)
\* The sibling chain from m ends with a null link.
NullTerminated(h, m) == m = NULL \/ (IsTree(h, m) /\ tailScan(h, m).fault = NoFault)

C8_InsertAppendsOneMember ==
    [][(/\ ret'.op \in InsertOps /\ ret'.key \in Keys
        /\ ret'.op = "insertChild" => objs[2].First # NULL
        /\ IsTree(heap, objs[ret'.obj].First))
       => /\ fault' = NoFault
          /\ Len(heap') = Len(heap) + 1
          /\ heap'[Len(heap')].Key = ret'.key
          /\ NullTerminated(heap', objs'[ret'.obj].First)
          /\ MemberList(heap', objs'[ret'.obj].First)
               = MemberList(heap, objs[ret'.obj].First) \o <<Len(heap')>>
          /\ \A n \in 1..Len(heap) :
                heap'[n].Key = heap[n].Key /\ heap'[n].Value = heap[n].Value]_vars

(***************************************************************************)
(* Vocabulary of the parser properties: the tokens of the declared data,   *)
(* read from a copy of the data that ends with NUL.                        *)
(***************************************************************************)
Data == SubSeq(InputJsonBuffer, 1, InputJsonFileSize)

RECURSIVE Tokens(_, _)
\* The tokens of buf from index i up to the first Invalid one.
Tokens(buf, i) ==
    LET t == tokenizeString(buf, i)
    IN  IF t.Type = "INVALID" THEN <<>> ELSE <<t>> \o Tokens(buf, t.idx)

ScalarTokens == {"STRING", "NUMBER", "BOOLEAN", "NULL"}

\* The data is '{' followed by one or more  "key" : scalar ,  groups and ends there.
EndsAfterTrailingComma ==
    LET ts == Tokens(Data, 0)
        n == Len(ts)
    IN  /\ n >= 5 /\ (n - 1) % 4 = 0
        /\ ts[1].Type = "OBJECT_START"
        /\ \A k \in 0..((n - 1) \div 4 - 1) :
              /\ ts[4 * k + 2].Type = "STRING"
              /\ ts[4 * k + 3].Type = "COLON"
              /\ ts[4 * k + 4].Type \in ScalarTokens
              /\ ts[4 * k + 5].Type = "COMMA"
        /\ skipWhiteSpace(Data, ts[n].idx) = Len(Data)

(***************************************************************************)
(* C9: parse reports failure by validity=false: when the first token at    *)
(* the cursor is not ObjectStart (empty input, an Invalid token, any other *)
(* token), the returned Object has validity=false.                         *)
(***************************************************************************)
C9_NoObjectStartIsInvalid ==
    (/\ ret.op = "parse" /\ fault = NoFault
     /\ InputJsonFileSize = Len(InputJsonBuffer)
     /\ \/ InputJsonFileSize = 0
        \/ tokenizeString(InputJsonBuffer, 0).Type # "OBJECT_START")
    => ~objs[1].IsValid

(***************************************************************************)
(* C10: when end-of-data is reached immediately after a member's trailing  *)
(* comma, with no closing '}', the parsed Object has validity=false.       *)
(***************************************************************************)
C10_TrailingCommaIsInvalid ==
    (ret.op = "parse" /\ fault = NoFault /\ EndsAfterTrailingComma) => ~objs[1].IsValid

(***************************************************************************)
(* The first member of the parsed text, as read from the buffer: '{', a    *)
(* key, a colon and the token that starts the value.                       *)
(***************************************************************************)
FirstToken == tokenizeString(InputJsonBuffer, 0)
FirstKeyToken == tokenizeString(InputJsonBuffer, FirstToken.idx)
FirstColonToken == tokenizeString(InputJsonBuffer, FirstKeyToken.idx)
FirstValueToken == tokenizeString(InputJsonBuffer, FirstColonToken.idx)
FirstElementToken == tokenizeString(InputJsonBuffer, FirstValueToken.idx)

StartsWithMember ==
    /\ InputJsonFileSize > 0
    /\ FirstToken.Type = "OBJECT_START"
    /\ FirstKeyToken.Type = "STRING"
    /\ FirstColonToken.Type = "COLON"

\* The parse of the object that begins with the '{' just before index idx,
\* taken on its own.
NestedParse(idx) == parseStringToJson(InputJsonBuffer, InputJsonFileSize, idx - 1, <<>>, NULL)

\* The first member's value is an object, or an array whose first element
\* is an object, and the parse of that object returns validity=false.
NestedObjectFails ==
    /\ StartsWithMember
    /\ \/ /\ FirstValueToken.Type = "OBJECT_START"
          /\ ~NestedParse(FirstValueToken.idx).obj.IsValid
       \/ /\ FirstValueToken.Type = "ARRAY_START"
          /\ FirstElementToken.Type = "OBJECT_START"
          /\ ~NestedParse(FirstElementToken.idx).obj.IsValid

(***************************************************************************)
(* C11: a structural violation inside a nested object propagates outward:  *)
(* when the recursive parse of a nested object value, or of an object that *)
(* is an array element, returns validity=false, the enclosing parse        *)
(* returns validity=false too.                                             *)
(***************************************************************************)
C11_NestedFailurePropagates ==
    (ret.op = "parse" /\ fault = NoFault /\ NestedObjectFails) => ~objs[1].IsValid

(***************************************************************************)
(* C12: the declared length bounds every buffer access.  A token that ends *)
(* at BufferIndex was read up to index BufferIndex - 1 at least, so after  *)
(* a parse BufferIndex does not exceed InputJsonFileSize.                  *)
(***************************************************************************)
C12_ReadsBelowDeclaredLength ==
    (ret.op = "parse" /\ fault = NoFault) => BufferIndex <= InputJsonFileSize

(***************************************************************************)
(* C13: a String or Number token whose text does not fit the token         *)
(* capacity (JSON_TOKEN_STRING_SIZE bytes with the terminator) is reported *)
(* as an explicit error: when the first key of the text is that long, the  *)
(* parse returns validity=false and nothing is written outside the token.  *)
(***************************************************************************)
C13_OversizedTokenIsError ==
    (/\ ret.op = "parse"
     /\ InputJsonFileSize > 0
     /\ FirstToken.Type = "OBJECT_START"
     /\ Len(FirstKeyToken.text) >= JSON_TOKEN_STRING_SIZE)
    => (fault = NoFault /\ ~objs[1].IsValid)

\* The value the last call looked up, and the array element it indexed.
Looked == getJsonValueObject(heap, objs[ret.obj], ret.key).val
Element == Looked.Array[ret.index + 1]

(***************************************************************************)
(* C14: arrayElementAt on an Array value with 0 <= index < size returns    *)
(* the element stored at that index whatever its kind: a scalar element is *)
(* returned as it is stored, an object element as the member it refers to. *)
(***************************************************************************)
C14_ArrayElementOfAnyKind ==
    (ret.op = "arrayMember" /\ Looked.Type = "ARRAY" /\ ret.index \in 0..(Looked.Size - 1))
    => /\ fault = NoFault
       /\ Element.Type # "MEMBER" => ret.member.Value = Element
       /\ Element.Type = "MEMBER" => ret.member.Key = heap[Element.Child].Key

(***************************************************************************)
(* C15: arraySize returns the number of elements for an Array value and -1 *)
(* for a value of any other kind.                                          *)
(***************************************************************************)
C15_ArraySizeOrMinusOne ==
    (ret.op = "arraySize" /\ fault = NoFault)
    => ret.size = IF Looked.Type = "ARRAY" THEN Len(Looked.Array) ELSE -1

\* arraySize has returned 3 for the parsed array [1,2,3].
C15_Witness ==
    /\ ret.op = "arraySize" /\ fault = NoFault
    /\ InputJsonBuffer = ExamplePairs
    /\ Looked.Type = "ARRAY" /\ ret.size = 3

(***************************************************************************)
(* C16: get(root, key) returns an Invalid-kind Value if and only if no     *)
(* Member reachable from the root through sibling links and MemberRef      *)
(* values has that key (so for every key on an object with no members).    *)
(***************************************************************************)
C16_InvalidIffNoMatch ==
    (ret.op = "get" /\ IsTree(heap, objs[ret.obj].First))
    => /\ fault = NoFault
       /\ ret.val.Type = "INVALID" <=> FirstMatch(heap, objs[ret.obj].First, ret.key) = NULL

\* get has returned Invalid on a root whose head holds a nested object, no
\* member of either list having the key.
C16_Witness ==
    /\ ret.op = "get" /\ fault = NoFault /\ ret.val.Type = "INVALID"
    /\ IsTree(heap, objs[1].First)
    /\ objs[1].First # NULL
    /\ heap[objs[1].First].Value.Type = "MEMBER"
    /\ Len(PreOrder(heap, objs[1].First)) >= 3

(***************************************************************************)
(* Round trip vocabulary: a flat object text is '{', members  "key" :      *)
(* scalar  separated by commas (possibly none), '}', and nothing else; its *)
(* keys are distinct.                                                      *)
(***************************************************************************)
FlatObjectText(buf) ==
    LET ts == Tokens(buf, 0)
        n == Len(ts)
        m == (n - 1) \div 4
    IN  /\ n = 2 \/ (n >= 5 /\ n % 4 = 1)
        /\ ts[1].Type = "OBJECT_START"
        /\ ts[n].Type = "OBJECT_END"
        /\ skipWhiteSpace(buf, ts[n].idx) = Len(buf)
        /\ \A k \in 0..(m - 1) :
              /\ ts[4 * k + 2].Type = "STRING"
              /\ ts[4 * k + 3].Type = "COLON"
              /\ ts[4 * k + 4].Type \in ScalarTokens
              /\ k < m - 1 => ts[4 * k + 5].Type = "COMMA"
        /\ \A j, k \in 0..(m - 1) : j # k => ts[4 * j + 2].String # ts[4 * k + 2].String

\* What a token says, up to whitespace and number formatting.
TokenMeaning(t) ==
    [Type |-> t.Type, String |-> IF t.Type = "NUMBER" THEN "" ELSE t.String,
     Number |-> IF t.Type = "NUMBER" THEN atof(t.text) ELSE float64_t(0)]

Meaning(buf) == [i \in 1..Len(Tokens(buf, 0)) |-> TokenMeaning(Tokens(buf, 0)[i])]

(***************************************************************************)
(* C17: round trip: for a syntactically valid JSON object text with no     *)
(* duplicate keys (here: the flat object texts, the empty object           *)
(* included), serialize(parse(text)) holds the same keys with the same     *)
(* values in the same order, up to whitespace and number formatting.       *)
(***************************************************************************)
C17_RoundTrip ==
    (/\ ret.op = "print"
     /\ InputJsonFileSize = Len(InputJsonBuffer)
     /\ FlatObjectText(InputJsonBuffer)
     /\ \A n \in 1..Len(heap) : heap[n].Next # WILD /\ heap[n].Freed = 0)
    => /\ fault = NoFault
       /\ Meaning(ret.out) = Meaning(InputJsonBuffer)

\* The Value a literal token stands for.
LiteralValue(t) == IF t.Type = "NULL" THEN NullValue ELSE BooleanValue(t.text = TRUE_TEXT)

(***************************************************************************)
(* C18: literal values: a member or array element whose value token is     *)
(* true becomes Boolean(true), false becomes Boolean(false) and null       *)
(* becomes a Null-kind Value.  Stated for the first member of the text and *)
(* for the first element of an array that is the first member's value.     *)
(***************************************************************************)
C18_LiteralValues ==
    (ret.op = "parse" /\ fault = NoFault /\ StartsWithMember)
    => /\ FirstValueToken.Type \in {"BOOLEAN", "NULL"} =>
             /\ objs[1].First # NULL
             /\ heap[objs[1].First].Key = FirstKeyToken.String
             /\ heap[objs[1].First].Value = LiteralValue(FirstValueToken)
       /\ (/\ FirstValueToken.Type = "ARRAY_START"
           /\ FirstElementToken.Type \in {"BOOLEAN", "NULL"}
           /\ objs[1].First # NULL) =>
             /\ heap[objs[1].First].Value.Type = "ARRAY"
             /\ heap[objs[1].First].Value.Array[1] = LiteralValue(FirstElementToken)

\* {"a":true,"b":null} has been parsed: Boolean(true) for "a", Null for "b".
C18_Witness ==
    /\ ret.op = "parse" /\ fault = NoFault /\ objs[1].IsValid
    /\ InputJsonBuffer = ExampleLiterals
    /\ Len(heap) = 2
    /\ heap[1].Key = "a" /\ heap[1].Value = BooleanValue(TRUE)
    /\ heap[2].Key = "b" /\ heap[2].Value.Type = "NULL"

\* The owning edges that point at member n: object heads, sibling links,
\* MemberRef values and array elements of the allocated members.
Owners(n) ==
    {<<"head", o, 0>> : o \in {o \in ObjIds : objs[o].First = n}}
    \cup {<<"next", m, 0>> : m \in {m \in 1..Len(heap) : Live(heap, m) /\ heap[m].Next = n}}
    \cup {<<"child", m, 0>> :
            m \in {m \in 1..Len(heap) : /\ Live(heap, m)
                                        /\ heap[m].Value.Type = "MEMBER"
                                        /\ heap[m].Value.Child = n}}
    \cup {<<"element", x[1], x[2]>> :
            x \in {x \in (1..Len(heap)) \X (1..Len(heap)) :
                     /\ Live(heap, x[1])
                     /\ heap[x[1]].Value.Type = "ARRAY"
                     /\ x[2] <= Len(heap[x[1]].Value.Array)
                     /\ heap[x[1]].Value.Array[x[2]].Type = "MEMBER"
                     /\ heap[x[1]].Value.Array[x[2]].Child = n}}

(***************************************************************************)
(* C19: ownership stays tree-shaped: after a parse every allocated Member  *)
(* is referenced by exactly one owning edge (the object head, a sibling    *)
(* link, a MemberRef value or an array element).                           *)
(***************************************************************************)
C19_OneOwnerPerMember ==
    (ret.op = "parse" /\ fault = NoFault)
    => \A n \in 1..Len(heap) : Live(heap, n) => Cardinality(Owners(n)) = 1

\* The Value a scalar token stands for.
ScalarValue(t) ==
    CASE t.Type = "STRING" -> StringValue(t.String)
      [] t.Type = "NUMBER" -> NumberValue(atof(t.text))
      [] OTHER -> LiteralValue(t)

WalkResult(members, stop) == [members |-> members, stop |-> stop]

RECURSIVE ScalarMembers(_, _)
\* The members with scalar values that the text holds from index i on, and
\* what ends them: a token that is no String at a key position ("key"), no
\* Colon after the key ("colon"), a token that starts no value ("value"), a
\* nested object or array ("nested"), or no comma after a value ("end").
ScalarMembers(buf, i) ==
    LET k == tokenizeString(buf, i)
        c == tokenizeString(buf, k.idx)
        v == tokenizeString(buf, c.idx)
        n == tokenizeString(buf, v.idx)
        rest == ScalarMembers(buf, n.idx)
    IN  IF k.Type # "STRING" THEN WalkResult(<<>>, "key")
        ELSE IF c.Type # "COLON" THEN WalkResult(<<>>, "colon")
        ELSE IF v.Type \in {"OBJECT_START", "ARRAY_START"} THEN WalkResult(<<>>, "nested")
        ELSE IF v.Type \notin ScalarTokens THEN WalkResult(<<>>, "value")
        ELSE IF n.Type # "COMMA"
        THEN WalkResult(<<[Key |-> k.String, Value |-> ScalarValue(v)]>>, "end")
        ELSE WalkResult(<<[Key |-> k.String, Value |-> ScalarValue(v)]>> \o rest.members,
                        rest.stop)

\* The members attached to the root, in list order.
Attached ==
    [i \in 1..Len(MemberList(heap, objs[1].First)) |->
        [Key |-> heap[MemberList(heap, objs[1].First)[i]].Key,
         Value |-> heap[MemberList(heap, objs[1].First)[i]].Value]]

FatalMemberError ==
    /\ InputJsonFileSize > 0
    /\ FirstToken.Type = "OBJECT_START"
    /\ ScalarMembers(InputJsonBuffer, FirstToken.idx).stop \in {"key", "colon", "value"}

(***************************************************************************)
(* C20: fatal member errors: inside an object, when the token at a key     *)
(* position is no String, or the token after the key is no Colon, or the   *)
(* value token starts no value, parse returns validity=false and the       *)
(* Members inserted before the violation are still attached to the         *)
(* returned Object in insertion order.                                     *)
(***************************************************************************)
C20_FatalMemberErrors ==
    (ret.op = "parse" /\ fault = NoFault /\ FatalMemberError)
    => /\ ~objs[1].IsValid
       /\ Attached = ScalarMembers(InputJsonBuffer, FirstToken.idx).members

\* A parse has failed at the key position after one member or more, which
\* are still attached.
C20_Witness ==
    /\ ret.op = "parse" /\ fault = NoFault /\ FatalMemberError
    /\ ScalarMembers(InputJsonBuffer, FirstToken.idx).stop = "key"
    /\ ~objs[1].IsValid
    /\ Len(Attached) >= 1

(***************************************************************************)
(* The grammar of 4.2 on the text of a buffer: a value is a scalar, an     *)
(* object, or an array of scalars and objects.  Each operator gives the    *)
(* index behind the construct that starts at index i, or -1 when the text  *)
(* there is not of that form.  empty says whether {} counts as an object.  *)
(***************************************************************************)
RECURSIVE ObjectEnd(_, _, _)
RECURSIVE MembersEnd(_, _, _)
RECURSIVE ElementsEnd(_, _, _)

\* element { , element } ]
ElementsEnd(buf, i, empty) ==
    LET t == tokenizeString(buf, i)
        e == IF t.overflow THEN -1
             ELSE IF t.Type \in ScalarTokens THEN t.idx
             ELSE IF t.Type = "OBJECT_START" THEN ObjectEnd(buf, i, empty)
             ELSE -1
        n == tokenizeString(buf, e)
    IN  IF e = -1 THEN -1
        ELSE IF n.Type = "ARRAY_END" THEN n.idx
        ELSE IF n.Type = "COMMA" THEN ElementsEnd(buf, n.idx, empty)
        ELSE -1

\* [ ]  or  [ element { , element } ]
ArrayEnd(buf, i, empty) ==
    LET t == tokenizeString(buf, i)
        n == tokenizeString(buf, t.idx)
    IN  IF t.Type # "ARRAY_START" THEN -1
        ELSE IF n.Type = "ARRAY_END" THEN n.idx
        ELSE ElementsEnd(buf, t.idx, empty)

ValueEnd(buf, i, empty) ==
    LET t == tokenizeString(buf, i)
    IN  IF t.overflow THEN -1
        ELSE IF t.Type \in ScalarTokens THEN t.idx
        ELSE IF t.Type = "OBJECT_START" THEN ObjectEnd(buf, i, empty)
        ELSE IF t.Type = "ARRAY_START" THEN ArrayEnd(buf, i, empty)
        ELSE -1

\* "key" : value { , "key" : value } }
MembersEnd(buf, i, empty) ==
    LET k == tokenizeString(buf, i)
        c == tokenizeString(buf, k.idx)
        e == ValueEnd(buf, c.idx, empty)
        n == tokenizeString(buf, e)
    IN  IF k.overflow \/ k.Type # "STRING" \/ c.Type # "COLON" THEN -1
        ELSE IF e = -1 THEN -1
        ELSE IF n.Type = "OBJECT_END" THEN n.idx
        ELSE IF n.Type = "COMMA" THEN MembersEnd(buf, n.idx, empty)
        ELSE -1

ObjectEnd(buf, i, empty) ==
    LET t == tokenizeString(buf, i)
        n == tokenizeString(buf, t.idx)
    IN  IF t.Type # "OBJECT_START" THEN -1
        ELSE IF empty /\ n.Type = "OBJECT_END" THEN n.idx
        ELSE MembersEnd(buf, t.idx, empty)

Walked(keys, stop, idx, last) == [keys |-> keys, stop |-> stop, idx |-> idx, last |-> last]

RECURSIVE MemberWalk(_, _, _)
\* The members from index i on whose values are well formed (an object or
\* array value within the first size characters): their keys, the index
\* behind the last value and the token that starts it, and what ends them:
\* "key", "colon" or "value" as a token of the wrong kind at that position,
\* "end" as a token other than a comma behind a value.
MemberWalk(buf, size, i) ==
    LET k == tokenizeString(buf, i)
        c == tokenizeString(buf, k.idx)
        v == tokenizeString(buf, c.idx)
        e == ValueEnd(buf, c.idx, FALSE)
        n == tokenizeString(buf, e)
        rest == MemberWalk(buf, size, n.idx)
    IN  IF k.overflow \/ k.Type # "STRING" THEN Walked(<<>>, "key", i, k)
        ELSE IF c.Type # "COLON" THEN Walked(<<>>, "colon", i, c)
        ELSE IF e = -1 \/ (v.Type \notin ScalarTokens /\ e > size)
        THEN Walked(<<>>, "value", i, v)
        ELSE IF n.Type # "COMMA" THEN Walked(<<k.String>>, "end", e, v)
        ELSE Walked(<<k.String>> \o rest.keys, rest.stop, rest.idx, rest.last)

\* The walk over the members of the root object of the parsed text.
RootWalk == MemberWalk(InputJsonBuffer, InputJsonFileSize, FirstToken.idx)

AttachedKeys == [i \in 1..Len(Attached) |-> Attached[i].Key]

EndsWithoutComma ==
    /\ InputJsonFileSize > 0
    /\ FirstToken.Type = "OBJECT_START"
    /\ RootWalk.stop = "end"

Elements(ok, elems) == [ok |-> ok, elems |-> elems]

\* An element that is an object: what is known of it from the text is the
\* key of its first member.
ObjectElement(Key) == [Type |-> "MEMBER", Key |-> Key]

RECURSIVE ArrayElements(_, _, _)
\* The elements of the array whose text behind '[' starts at index i, as the
\* parser accepts them: scalars and well-formed objects within the first
\* size characters, with commas anywhere between them.  ok = FALSE when some
\* other token comes before the ']'.
ArrayElements(buf, size, i) ==
    LET t == tokenizeString(buf, i)
        e == ObjectEnd(buf, i, FALSE)
        rest == ArrayElements(buf, size, IF t.Type = "OBJECT_START" THEN e ELSE t.idx)
    IN  IF t.overflow THEN Elements(FALSE, <<>>)
        ELSE IF t.Type = "ARRAY_END" THEN Elements(TRUE, <<>>)
        ELSE IF t.Type = "COMMA" THEN rest
        ELSE IF t.Type \in ScalarTokens THEN Elements(rest.ok, <<ScalarValue(t)>> \o rest.elems)
        ELSE IF t.Type = "OBJECT_START" /\ e # -1 /\ e <= size
        THEN Elements(rest.ok, <<ObjectElement(tokenizeString(buf, t.idx).String)>> \o rest.elems)
        ELSE Elements(FALSE, <<>>)

\* The stored element is the one the text has at that position.
HoldsElement(h, stored, parsed) ==
    IF parsed.Type = "MEMBER"
    THEN stored.Type = "MEMBER" /\ Live(h, stored.Child) /\ h[stored.Child].Key = parsed.Key
    ELSE stored = parsed

\* The first member of the text has an array value that the parser accepts.
FirstArray == ArrayElements(InputJsonBuffer, InputJsonFileSize, FirstValueToken.idx)

FirstIsAcceptedArray ==
    /\ StartsWithMember
    /\ FirstValueToken.Type = "ARRAY_START"
    /\ FirstArray.ok

ArrayValues == {heap[n].Value : n \in {m \in 1..Len(heap) : heap[m].Value.Type = "ARRAY"}}

(***************************************************************************)
(* C22: array sizing invariant: for every array the parser accepts, the    *)
(* element count found by pass 1 equals the number of elements pass 2      *)
(* writes, every write of pass 2 is at an index below that count, and the  *)
(* inserted Array Value has Size equal to that count with a buffer of      *)
(* exactly that many elements, each holding the element parsed at that     *)
(* position.                                                               *)
(***************************************************************************)
C22_ArraySizing ==
    ret.op = "parse"
    => /\ fault # "heap_overflow"
       /\ fault = NoFault
          => /\ \A a \in ArrayValues :
                   /\ a.Size = Len(a.Array)
                   /\ \A i \in 1..Len(a.Array) : a.Array[i] # UninitValue
             /\ FirstIsAcceptedArray
                => /\ objs[1].First # NULL
                   /\ heap[objs[1].First].Value.Type = "ARRAY"
                   /\ heap[objs[1].First].Value.Size = Len(FirstArray.elems)
                   /\ \A i \in 1..Len(FirstArray.elems) :
                         HoldsElement(heap, heap[objs[1].First].Value.Array[i],
                                      FirstArray.elems[i])

\* An array of two elements, an object and a scalar, has been parsed and
\* stored with Size 2.
C22_Witness ==
    /\ ret.op = "parse" /\ fault = NoFault /\ FirstIsAcceptedArray
    /\ Len(FirstArray.elems) = 2
    /\ FirstArray.elems[1].Type = "MEMBER"
    /\ heap[objs[1].First].Value.Size = 2
    /\ heap[objs[1].First].Value.Array[2] = FirstArray.elems[2]

FatalInArray == {"ARRAY_START", "COLON", "OBJECT_END", "INVALID"}

RECURSIVE ArrayFatalToken(_, _, _)
\* The kind of the first token that is fatal inside the array whose text
\* behind '[' starts at index i, "" when the ']' (or an object that is not
\* well formed within the first size characters) comes first.
ArrayFatalToken(buf, size, i) ==
    LET t == tokenizeString(buf, i)
        e == ObjectEnd(buf, i, FALSE)
    IN  IF t.overflow THEN ""
        ELSE IF t.Type \in FatalInArray THEN t.Type
        ELSE IF t.Type = "ARRAY_END" THEN ""
        ELSE IF t.Type = "OBJECT_START"
        THEN IF e # -1 /\ e <= size THEN ArrayFatalToken(buf, size, e) ELSE ""
        ELSE ArrayFatalToken(buf, size, t.idx)

\* The members of the root are well formed up to one whose value is an
\* array, and that array holds a fatal token.
RootArrayFatalToken ==
    IF /\ InputJsonFileSize > 0
       /\ FirstToken.Type = "OBJECT_START"
       /\ RootWalk.stop = "value"
       /\ RootWalk.last.Type = "ARRAY_START"
    THEN ArrayFatalToken(InputJsonBuffer, InputJsonFileSize, RootWalk.last.idx)
    ELSE ""

(***************************************************************************)
(* C23: inside an array, any token other than Number, String, Boolean,     *)
(* Null, ObjectStart, Comma or ArrayEnd is fatal: a nested array, a Colon, *)
(* an ObjectEnd, or an Invalid token (including end-of-data before ']')    *)
(* makes the enclosing parse return validity=false, and no Array member is *)
(* inserted for that key.                                                  *)
(***************************************************************************)
C23_FatalTokenInArray ==
    (ret.op = "parse" /\ fault = NoFault /\ RootArrayFatalToken # "")
    => /\ ~objs[1].IsValid
       /\ AttachedKeys = RootWalk.keys
       /\ \A n \in 1..Len(heap) : heap[n].Value.Type = "ARRAY" => n \notin Range(MemberList(heap, objs[1].First))

\* A nested array has made the parse fail.
C23_Witness ==
    /\ ret.op = "parse" /\ fault = NoFault
    /\ RootArrayFatalToken = "ARRAY_START"
    /\ ~objs[1].IsValid
    /\ objs[1].First = NULL

(***************************************************************************)
(* The text at a cursor, described without the tokenizer.                  *)
(***************************************************************************)
Delimiter(Character) ==
    isWhiteSpace(Character) \/ Punctuation(Character) # "INVALID" \/ Character \in {QUOTE, NUL}

\* The index of the first character at or behind i that is not white space.
TextStart(buf, i) ==
    CHOOSE s \in i..(Len(buf) + 1) :
        /\ ~isWhiteSpace(At(buf, s))
        /\ \A j \in i..(s - 1) : isWhiteSpace(At(buf, j))

\* The word at index s: the characters up to the next delimiter.
WordAt(buf, s) ==
    LET e == CHOOSE e \in s..(Len(buf) + 1) :
                 /\ Delimiter(At(buf, e))
                 /\ \A j \in s..(e - 1) : ~Delimiter(At(buf, j))
    IN  SubSeq(buf, s + 1, e)

\* The string that opens at s has no closing quote before end-of-data.
UnterminatedString(buf, s) ==
    At(buf, s) = QUOTE /\ \A j \in (s + 1)..(Len(buf) - 1) : At(buf, j) # QUOTE

\* The number run that starts at s goes on to end-of-data.
UnterminatedNumber(buf, s) ==
    /\ (At(buf, s) = "-" \/ isNumber(At(buf, s)))
    /\ \A j \in (s + 1)..(Len(buf) - 1) : isNumber(At(buf, j)) \/ At(buf, j) \in {".", "e", "-"}

\* The leading character starts no token.
UnknownLeader(buf, s) ==
    /\ ~Delimiter(At(buf, s)) \/ At(buf, s) = NUL
    /\ At(buf, s) # "-" /\ ~isNumber(At(buf, s))
    /\ At(buf, s) \notin {"t", "f", "n"}

\* A word that starts with t, f or n and is not true, false or null.
NotALiteral(buf, s) ==
    /\ At(buf, s) \in {"t", "f", "n"}
    /\ WordAt(buf, s) \notin {TRUE_TEXT, FALSE_TEXT, NULL_TEXT}

(***************************************************************************)
(* C24: malformed tokens: the tokenizer returns an Invalid token when a    *)
(* string reaches end-of-data before its closing quote, when a number run  *)
(* reaches end-of-data, when the leading character is not one it           *)
(* recognises, and when a word starting with t, f or n is not exactly      *)
(* true, false or null; in the last two cases the cursor is left at that   *)
(* character (only leading whitespace has been skipped).                   *)
(***************************************************************************)
C24_MalformedTokens ==
    ret.op = "parse"
    => \A i \in 0..Len(InputJsonBuffer) :
          /\ (\/ UnterminatedString(InputJsonBuffer, TextStart(InputJsonBuffer, i))
              \/ UnterminatedNumber(InputJsonBuffer, TextStart(InputJsonBuffer, i)))
             => tokenizeString(InputJsonBuffer, i).Type = "INVALID"
          /\ (\/ UnknownLeader(InputJsonBuffer, TextStart(InputJsonBuffer, i))
              \/ NotALiteral(InputJsonBuffer, TextStart(InputJsonBuffer, i)))
             => /\ tokenizeString(InputJsonBuffer, i).Type = "INVALID"
                /\ tokenizeString(InputJsonBuffer, i).idx = TextStart(InputJsonBuffer, i)

\* The parse of the text from cursor i on, taken on its own.
ParseAt(i) == parseStringToJson(InputJsonBuffer, InputJsonFileSize, i, <<>>, NULL)

\* A well-formed object starts at cursor i and lies within the declared data.
WellFormedObjectAt(i) ==
    /\ ObjectEnd(InputJsonBuffer, i, TRUE) # -1
    /\ ObjectEnd(InputJsonBuffer, i, TRUE) <= InputJsonFileSize

(***************************************************************************)
(* C25: for a well-formed JSON object starting at the cursor, parse        *)
(* returns with the cursor positioned immediately after the '}' that       *)
(* closes that object (for a nested object: after the nested '}'); the     *)
(* cursor on return is never smaller than the cursor on entry.             *)
(***************************************************************************)
C25_CursorBehindTheObject ==
    (ret.op = "parse" /\ fault = NoFault)
    => /\ WellFormedObjectAt(0) => BufferIndex = ObjectEnd(InputJsonBuffer, 0, TRUE)
       /\ \A i \in 0..Len(InputJsonBuffer) :
             ParseAt(i).fault = NoFault
             => /\ ParseAt(i).idx >= i
                /\ WellFormedObjectAt(i) => ParseAt(i).idx = ObjectEnd(InputJsonBuffer, i, TRUE)

\* The text is a well-formed object whose first member is a nested object
\* followed by another member; the parse has ended behind the last '}', and
\* the parse of the nested object on its own ends behind the nested '}'.
C25_Witness ==
    /\ ret.op = "parse" /\ fault = NoFault
    /\ WellFormedObjectAt(0)
    /\ StartsWithMember /\ FirstValueToken.Type = "OBJECT_START"
    /\ WellFormedObjectAt(FirstColonToken.idx)
    /\ ParseAt(FirstColonToken.idx).idx = ObjectEnd(InputJsonBuffer, FirstColonToken.idx, TRUE)
    /\ tokenizeString(InputJsonBuffer, ParseAt(FirstColonToken.idx).idx).Type = "COMMA"
    /\ BufferIndex = Len(InputJsonBuffer)
    /\ Len(AttachedKeys) = 2

\* The declared data is the whole text, and the text is {} .
EmptyObjectText ==
    /\ InputJsonFileSize = Len(InputJsonBuffer)
    /\ FirstToken.Type = "OBJECT_START"
    /\ FirstKeyToken.Type = "OBJECT_END"
    /\ skipWhiteSpace(InputJsonBuffer, FirstKeyToken.idx) = Len(InputJsonBuffer)

\* The declared data is the whole text, and the text is {"key":{}} .
NestedEmptyObjectText ==
    /\ InputJsonFileSize = Len(InputJsonBuffer)
    /\ StartsWithMember
    /\ FirstValueToken.Type = "OBJECT_START"
    /\ FirstElementToken.Type = "OBJECT_END"
    /\ tokenizeString(InputJsonBuffer, FirstElementToken.idx).Type = "OBJECT_END"
    /\ skipWhiteSpace(InputJsonBuffer, tokenizeString(InputJsonBuffer, FirstElementToken.idx).idx)
          = Len(InputJsonBuffer)

(***************************************************************************)
(* C26: an object with no members parses as a valid empty object: for the  *)
(* input {} parse returns validity=true with no members, and for a nested  *)
(* empty object value such as {"a":{}} the result is valid and contains a  *)
(* member "a" whose value is an (empty) nested object.                     *)
(***************************************************************************)
C26_EmptyObjectIsValid ==
    (ret.op = "parse" /\ fault = NoFault)
    => /\ EmptyObjectText => (objs[1].IsValid /\ objs[1].First = NULL)
       /\ NestedEmptyObjectText
          => /\ objs[1].IsValid
             /\ Len(Attached) = 1
             /\ Attached[1].Key = FirstKeyToken.String
             /\ Attached[1].Value.Type = "MEMBER"
             /\ Attached[1].Value.Child = NULL

\* The decimal digits of the integer a Number text stands for: the sign,
\* if the value is not zero, and the digits without leading zeros.
IntegerDigits(text) ==
    LET Negative == text # <<>> /\ text[1] = "-"
        digits == significantDigits(text, IF Negative THEN 2 ELSE 1)
    IN  IF digits = <<>> THEN <<"0">>
        ELSE (IF Negative THEN <<"-">> ELSE <<>>) \o digits

\* The text is  { "key" : number }  with a number that has no fraction and
\* no exponent, and the parsed object is still held.
OneIntegerMember ==
    /\ StartsWithMember
    /\ FirstValueToken.Type = "NUMBER"
    /\ \A i \in 1..Len(FirstValueToken.text) :
          isNumber(FirstValueToken.text[i]) \/ (i = 1 /\ FirstValueToken.text[i] = "-")
    /\ FirstElementToken.Type = "OBJECT_END"
    /\ objs[1].First # NULL /\ objs[1].IsValid
    /\ Live(heap, objs[1].First)
    /\ heap[objs[1].First].Next = NULL

(***************************************************************************)
(* C27: serialized numbers: for every Number whose fractional part is      *)
(* within 1e-9 of zero the serializer prints the decimal digits of its     *)
(* integer value with no decimal point, for every magnitude of that        *)
(* integer value (including values outside the signed 32-bit range).       *)
(* Stated for the objects with one member whose value is an integer.       *)
(***************************************************************************)
C27_IntegerDigits ==
    (ret.op = "print" /\ OneIntegerMember)
    => /\ fault = NoFault
       /\ ret.out = <<"{", QUOTE, FirstKeyToken.String, QUOTE, " ", ":", " ">>
                       \o IntegerDigits(FirstValueToken.text) \o <<"}", "\n">>

\* Nothing has been freed: the heap is what the inserts made of it.
OnlyInserted == \A n \in 1..Len(heap) : heap[n].Freed = 0

(***************************************************************************)
(* C28: after any sequence of insert operations on an object, the member   *)
(* list reachable from the object's head is finite, acyclic and            *)
(* null-terminated: every newly created Member has no successor (its next  *)
(* link is null) until a later insert appends to it, so the tail scan of   *)
(* the next insert, lookup, serialize and destroy all stop at the last     *)
(* inserted Member.                                                        *)
(***************************************************************************)
C28_ListIsNullTerminated ==
    OnlyInserted
    => /\ fault = NoFault
       /\ \A n \in 1..Len(heap) : heap[n].Next = NULL \/ heap[n].Next \in (n + 1)..Len(heap)
       /\ \A o \in ObjIds : NullTerminated(heap, objs[o].First)

(***************************************************************************)
(* C29: destroy is safe on an object that has no members (a freshly        *)
(* constructed Object, or the result of a parse that failed before         *)
(* inserting anything): it dereferences no null or freed Member and leaves *)
(* the object empty; and after destroy on any object the object's head is  *)
(* empty.                                                                  *)
(***************************************************************************)
C29_DestroyOfEmptyObject ==
    [][(ret'.op = "destroy" /\ fault = NoFault)
       => /\ objs[ret'.obj].First = NULL => (fault' = NoFault /\ heap' = heap)
          /\ fault' = NoFault => objs'[ret'.obj].First = NULL]_vars

(***************************************************************************)
(* C30: parse terminates on every finite NUL-terminated input and every    *)
(* start cursor: the tokenizer never moves the cursor backward, and every  *)
(* iteration of the top-level loop, of the member loop and of both array   *)
(* passes either returns or consumes at least one token.                   *)
(***************************************************************************)
C30_ParseTerminates ==
    ret.op = "parse"
    => /\ \A i \in 0..Len(InputJsonBuffer) : tokenizeString(InputJsonBuffer, i).idx >= i
       /\ fault # "hang"
       /\ \A i \in 0..Len(InputJsonBuffer) : ParseAt(i).fault # "hang"

====
